---- MODULE Spec2Model ----
(***************************************************************************)
(* A model of apps/api/native/src/html.rs: the HTML cleaning pipeline      *)
(* (transform_html), the link and metadata extractors and the markdown     *)
(* post-processor.  Every operation is one call over its own freshly       *)
(* parsed document; each is modelled as its own specification over the     *)
(* variables it uses, the others staying at their initial value.           *)
(***************************************************************************)
EXTENDS Integers, Sequences, FiniteSets, TLC

VARIABLES
  opts,       \* the argument of the call: TransformHtmlOptions, html, markdown
  pc,         \* position of the call in the function's body
  dom,        \* the node arena: children, text, attributes and tag of every node
  document,   \* the `document` binding: the root the pipeline works on
  sel,        \* index of the selector of the list being processed
  queue,      \* items the running `for` loop has still to process
  last,       \* what the last noise-loop iteration did with which match
  out,        \* `out` of extract_links, _extract_metadata, post_process_markdown
  link_open_count,  \* `link_open_count` of post_process_markdown
  res         \* the bytes of the String post_process_markdown returns

vars == <<opts, pc, dom, document, sel, queue, last, out, link_open_count, res>>

(***************************************************************************)
(* Bounds of the model.                                                    *)
(***************************************************************************)
\* number of elements of the input document besides html, head and body
MaxNodes == 3

\* number of candidates of a srcset attribute
MaxCandidates == 3

\* number of pieces of a markdown text
MaxPieces == 3

(***************************************************************************)
(* Sequences.                                                              *)
(***************************************************************************)
Range(s) == {s[i] : i \in DOMAIN s}

RECURSIVE Concat(_)
Concat(ss) == IF ss = <<>> THEN <<>> ELSE Head(ss) \o Concat(Tail(ss))

\* t occurs in s as a contiguous run
Occurs(t, s) ==
  \E i \in 0..(Len(s) - Len(t)) : \A j \in 1..Len(t) : s[i + j] = t[j]

(***************************************************************************)
(* The node arena.  Elements 1..MaxNodes are the elements the input        *)
(* writes; the other nodes are the ones the HTML parser always creates.    *)
(***************************************************************************)
Elems == 1..MaxNodes
DOC   == MaxNodes + 1    \* parse_html().one(opts.html): the document node
HTML  == MaxNodes + 2
HEAD  == MaxNodes + 3
BODY  == MaxNodes + 4
NDOC  == MaxNodes + 5    \* parse_html().one("<div></div>"): the new document
NHTML == MaxNodes + 6
NHEAD == MaxNodes + 7
NBODY == MaxNodes + 8
NDIV  == MaxNodes + 9    \* its <div>, the container of the include filter
AllNodes == 1..(MaxNodes + 9)

NoAttrs == [x \in {} |-> ""]

IsElement(d, n) == d.tag[n] # "#document"

\* inclusive descendants of the nodes of s, in document order
RECURSIVE PreOrderSeq(_, _)
PreOrderSeq(ch, s) ==
  IF s = <<>> THEN <<>>
  ELSE <<Head(s)>> \o PreOrderSeq(ch, ch[Head(s)]) \o PreOrderSeq(ch, Tail(s))

inclusive_descendants(d, n) == PreOrderSeq(d.children, <<n>>)

Subtree(d, n) == Range(inclusive_descendants(d, n))

\* NodeRef::detach: unlink n from its parent; n keeps its own subtree
detach(d, n) ==
  [d EXCEPT !.children =
     [p \in DOMAIN d.children |-> SelectSeq(d.children[p], LAMBDA c : c # n)]]

\* an append that leaves n linked where it was
append_shared(d, p, n) ==
  [d EXCEPT !.children[p] = Append(@, n)]

\* NodeRef::append: n is unlinked from where it is and becomes p's last child
append(d, p, n) ==
  LET u == detach(d, n)
  IN  [u EXCEPT !.children[p] = Append(@, n)]

\* NodeRef::text_contents: the text of the subtree, in document order
text_contents(d, n) ==
  LET o == inclusive_descendants(d, n)
  IN  Concat([i \in 1..Len(o) |-> d.text[o[i]]])

(***************************************************************************)
(* Strings are sequences of characters.                                    *)
(***************************************************************************)
UPPER == <<"A","B","C","D","E","F","G","H","I","J","K","L","M","N","O","P","Q","R","S","T","U","V","W","X","Y","Z">>
LOWER == <<"a","b","c","d","e","f","g","h","i","j","k","l","m","n","o","p","q","r","s","t","u","v","w","x","y","z">>

\* char::to_ascii_lowercase, and char::to_lowercase on the model's alphabet
lower_char(c) ==
  IF c \in Range(UPPER) THEN LOWER[CHOOSE i \in DOMAIN UPPER : UPPER[i] = c] ELSE c

\* str::to_lowercase
to_lowercase(s) == [i \in 1..Len(s) |-> lower_char(s[i])]

\* str::contains, and the substring test of a [name*="v"] selector
contains(s, needle) == Occurs(needle, s)

\* str::starts_with
starts_with(s, p) == Len(p) <= Len(s) /\ SubSeq(s, 1, Len(p)) = p

\* str::ends_with, for a single character
ends_with(s, c) == s # <<>> /\ s[Len(s)] = c

\* str::split(c): the pieces between the occurrences of the character c
RECURSIVE split(_, _)
split(s, c) ==
  IF c \notin Range(s) THEN <<s>>
  ELSE LET i == CHOOSE k \in DOMAIN s : s[k] = c /\ \A j \in 1..(k - 1) : s[j] # c
       IN  <<SubSeq(s, 1, i - 1)>> \o split(SubSeq(s, i + 1, Len(s)), c)

\* str::trim, white space being the space character
RECURSIVE trim_start(_)
trim_start(s) == IF s # <<>> /\ Head(s) = " " THEN trim_start(Tail(s)) ELSE s

RECURSIVE trim_end(_)
trim_end(s) ==
  IF s # <<>> /\ s[Len(s)] = " " THEN trim_end(SubSeq(s, 1, Len(s) - 1)) ELSE s

trim(s) == trim_end(trim_start(s))

\* [&str]::join(sep)
RECURSIVE join(_, _)
join(toks, sep) ==
  IF toks = <<>> THEN <<>>
  ELSE IF Len(toks) = 1 THEN toks[1]
  ELSE toks[1] \o sep \o join(Tail(toks), sep)

\* str::split_whitespace: the non-empty pieces between white space
split_whitespace(s) == SelectSeq(split(s, " "), LAMBDA t : t # <<>>)

(***************************************************************************)
(* CSS selectors: a tag name, a class, an id, an attribute test (with an   *)
(* optional tag name), or a string that does not parse.                    *)
(***************************************************************************)
TagSel(x)          == [t |-> "tag",   tag |-> x,   name |-> "",  v |-> ""]
ClassSel(x)        == [t |-> "class", tag |-> "*", name |-> "",  v |-> x]
IdSel(x)           == [t |-> "id",    tag |-> "*", name |-> "",  v |-> x]
AttrEq(tg, a, x)   == [t |-> "eq",    tag |-> tg,  name |-> a,   v |-> x]
AttrSub(tg, a, x)  == [t |-> "sub",   tag |-> tg,  name |-> a,   v |-> x]
AttrHas(tg, a)     == [t |-> "has",   tag |-> tg,  name |-> a,   v |-> ""]
BadSel             == [t |-> "bad",   tag |-> "",  name |-> "",  v |-> ""]
\* tag:empty, a selector whose matches depend on what stands below the element
EmptySel(x)        == [t |-> "empty", tag |-> x,   name |-> "",  v |-> ""]

HasAttr(d, n, a) == a \in DOMAIN d.attrs[n]

\* whether element n matches selector s (s parses)
Matches(d, n, s) ==
  /\ IsElement(d, n)
  /\ CASE s.t = "tag"   -> d.tag[n] = s.tag
       [] s.t = "class" -> /\ HasAttr(d, n, "class")
                           /\ s.v \in Range(split_whitespace(d.attrs[n]["class"]))
       [] s.t = "id"    -> HasAttr(d, n, "id") /\ d.attrs[n]["id"] = s.v
       [] s.t = "eq"    -> /\ s.tag \in {"*", d.tag[n]}
                           /\ HasAttr(d, n, s.name) /\ d.attrs[n][s.name] = s.v
       [] s.t = "sub"   -> /\ s.tag \in {"*", d.tag[n]}
                           /\ HasAttr(d, n, s.name)
                           /\ contains(d.attrs[n][s.name], s.v)
       [] s.t = "has"   -> /\ s.tag \in {"*", d.tag[n]} /\ HasAttr(d, n, s.name)
       [] s.t = "empty" -> /\ s.tag \in {"*", d.tag[n]}
                           /\ d.children[n] = <<>> /\ d.text[n] = <<>>
       [] OTHER         -> FALSE

\* NodeRef::select: Err on a selector that does not parse, else the matching
\* inclusive descendants of n in document order
select_ok(s) == s.t # "bad"

select(d, n, s) ==
  SelectSeq(inclusive_descendants(d, n), LAMBDA m : Matches(d, m, s))

(***************************************************************************)
(* Attribution detector and attribution-preserving pruner.                 *)
(***************************************************************************)
\* ATTRIBUTION_TEXT_REGEX, (?i): alternatives of the pattern, \s+ being one space
ATTRIBUTION_TEXT_REGEX ==
  { <<"©">>,
    <<"a","l","l"," ","r","i","g","h","t","s"," ","r","e","s","e","r","v","e","d">>,
    <<"c","r","e","a","t","i","v","e"," ","c","o","m","m","o","n","s">>,
    <<"c","c","0">>,
    <<"l","i","c","e","n","s","e","d"," ","u","n","d","e","r">>,
    <<"p","h","o","t","o"," ","b","y">> }

\* Regex::is_match: some alternative occurs in the text, letter case ignored
is_match(txt) ==
  \E p \in ATTRIBUTION_TEXT_REGEX : Occurs(p, to_lowercase(txt))

ATTRIBUTION_SELECTORS ==
  << AttrEq("a", "rel", <<"l","i","c","e","n","s","e">>),
     AttrSub("a", "href", <<"c","r","e","a","t","i","v","e","c","o","m","m","o","n","s",".","o","r","g">>),
     AttrEq("*", "itemprop", <<"c","o","p","y","r","i","g","h","t","H","o","l","d","e","r">>),
     AttrEq("*", "itemprop", <<"c","o","p","y","r","i","g","h","t","Y","e","a","r">>),
     AttrEq("*", "itemprop", <<"a","u","t","h","o","r">>),
     AttrEq("*", "itemprop", <<"c","r","e","a","t","o","r">>),
     AttrSub("*", "class", <<"c","o","p","y","r","i","g","h","t">>),
     AttrSub("*", "class", <<"l","i","c","e","n","s","e">>) >>

\* the three signals of contains_attribution, in the order it tries them
attribution_by_text(d, node) == is_match(text_contents(d, node))

attribution_by_selector(d, node) ==
  \E i \in DOMAIN ATTRIBUTION_SELECTORS :
     select(d, node, ATTRIBUTION_SELECTORS[i]) # <<>>

attribution_by_class(d, node) ==
  /\ IsElement(d, node)
  /\ HasAttr(d, node, "class")
  /\ LET class_lower == to_lowercase(d.attrs[node]["class"])
     IN  contains(class_lower, <<"c","o","p","y","r","i","g","h","t">>) \/ contains(class_lower, <<"l","i","c","e","n","s","e">>)

contains_attribution(d, node) ==
  \/ attribution_by_text(d, node)
  \/ attribution_by_selector(d, node)
  \/ attribution_by_class(d, node)

\* a pruner that keeps an attribution-bearing child as it is, without
\* descending into it
RECURSIVE strip_children_shallow(_, _)
strip_children_shallow(d, kids) ==
  IF kids = <<>> THEN d
  ELSE LET child == Head(kids)
           d1 == IF IsElement(d, child) /\ ~contains_attribution(d, child)
                 THEN detach(d, child)
                 ELSE d
       IN  strip_children_shallow(d1, Tail(kids))

\* lines 65-75: the loop over node.children()
RECURSIVE strip_children(_, _)
strip_children(d, kids) ==
  IF kids = <<>> THEN d
  ELSE LET child == Head(kids)
           d1 == IF IsElement(d, child)
                 THEN IF contains_attribution(d, child)
                      THEN strip_children(d, d.children[child])
                      ELSE detach(d, child)
                 ELSE d
       IN  strip_children(d1, Tail(kids))

\* lines 64-76: strip_non_attribution_children(node), `children` being the
\* children collected on entry
strip_non_attribution_children(d, node) == strip_children(d, d.children[node])

(***************************************************************************)
(* transform_html: the selector lists.                                     *)
(***************************************************************************)
EXCLUDE_NON_MAIN_TAGS ==
  << TagSel("header"), TagSel("footer"), TagSel("nav"), TagSel("aside"),
     ClassSel(<<"h","e","a","d","e","r">>), ClassSel(<<"t","o","p">>), ClassSel(<<"n","a","v","b","a","r">>), IdSel(<<"h","e","a","d","e","r">>),
     ClassSel(<<"f","o","o","t","e","r">>), ClassSel(<<"b","o","t","t","o","m">>), IdSel(<<"f","o","o","t","e","r">>),
     ClassSel(<<"s","i","d","e","b","a","r">>), ClassSel(<<"s","i","d","e">>), ClassSel(<<"a","s","i","d","e">>), IdSel(<<"s","i","d","e","b","a","r">>),
     ClassSel(<<"m","o","d","a","l">>), ClassSel(<<"p","o","p","u","p">>), IdSel(<<"m","o","d","a","l">>), ClassSel(<<"o","v","e","r","l","a","y">>),
     ClassSel(<<"a","d">>), ClassSel(<<"a","d","s">>), ClassSel(<<"a","d","v","e","r","t">>), IdSel(<<"a","d">>),
     ClassSel(<<"l","a","n","g","-","s","e","l","e","c","t","o","r">>), ClassSel(<<"l","a","n","g","u","a","g","e">>), IdSel(<<"l","a","n","g","u","a","g","e","-","s","e","l","e","c","t","o","r">>),
     ClassSel(<<"s","o","c","i","a","l">>), ClassSel(<<"s","o","c","i","a","l","-","m","e","d","i","a">>), ClassSel(<<"s","o","c","i","a","l","-","l","i","n","k","s">>),
     IdSel(<<"s","o","c","i","a","l">>), ClassSel(<<"m","e","n","u">>), ClassSel(<<"n","a","v","i","g","a","t","i","o","n">>), IdSel(<<"n","a","v">>),
     ClassSel(<<"b","r","e","a","d","c","r","u","m","b","s">>), IdSel(<<"b","r","e","a","d","c","r","u","m","b","s">>), ClassSel(<<"s","h","a","r","e">>),
     IdSel(<<"s","h","a","r","e">>), ClassSel(<<"w","i","d","g","e","t">>), IdSel(<<"w","i","d","g","e","t">>), ClassSel(<<"c","o","o","k","i","e">>),
     IdSel(<<"c","o","o","k","i","e">>), ClassSel(<<"f","c","-","d","e","c","o","r","a","t","i","o","n">>) >>

FORCE_INCLUDE_MAIN_TAGS ==
  << IdSel(<<"m","a","i","n">>), ClassSel(<<"s","w","o","o","g","o","-","c","o","l","s">>), ClassSel(<<"s","w","o","o","g","o","-","t","e","x","t">>),
     ClassSel(<<"s","w","o","o","g","o","-","t","a","b","l","e","-","d","i","v">>), ClassSel(<<"s","w","o","o","g","o","-","s","p","a","c","e">>),
     ClassSel(<<"s","w","o","o","g","o","-","a","l","e","r","t">>), ClassSel(<<"s","w","o","o","g","o","-","s","p","o","n","s","o","r","s">>),
     ClassSel(<<"s","w","o","o","g","o","-","t","i","t","l","e">>), ClassSel(<<"s","w","o","o","g","o","-","t","a","b","s">>), ClassSel(<<"s","w","o","o","g","o","-","l","o","g","o">>),
     ClassSel(<<"s","w","o","o","g","o","-","i","m","a","g","e">>), ClassSel(<<"s","w","o","o","g","o","-","b","u","t","t","o","n">>),
     ClassSel(<<"s","w","o","o","g","o","-","a","g","e","n","d","a">>) >>

\* the loops without the one for noscript
STRIP_TAGS_WITHOUT_NOSCRIPT == << "head", "meta", "style", "script" >>

\* the five `while let Ok(x) = document.select_first(..)` loops, in order
STRIP_TAGS == << "head", "meta", "noscript", "style", "script" >>

\* a closure that asks whether tag itself is a force-include match
force_included_self(d, tag) ==
  \E i \in DOMAIN FORCE_INCLUDE_MAIN_TAGS :
     Matches(d, tag, FORCE_INCLUDE_MAIN_TAGS[i])

\* the closure of the noise loop: tag contains a force-include match
force_included(d, tag) ==
  \E i \in DOMAIN FORCE_INCLUDE_MAIN_TAGS :
     select(d, tag, FORCE_INCLUDE_MAIN_TAGS[i]) # <<>>

(***************************************************************************)
(* The inputs of transform_html.  An input document is a shape (the parent *)
(* of every element, elements numbered in document order) and an element   *)
(* for every position; an element's text stands before its child elements. *)
(***************************************************************************)
El(tg, at, tx, lf) == [tag |-> tg, attrs |-> at, text |-> tx, leaf |-> lf]

\* documents with noise containers, attribution and force-include markers
NoiseElements ==
  { El("aside",  NoAttrs, <<>>, FALSE),
    El("footer", NoAttrs, <<"A","l","l"," ","R","i","g","h","t","s"," ">>, FALSE),
    El("span",   NoAttrs, <<"R","e","s","e","r","v","e","d">>, FALSE),
    El("div",    [class |-> <<"C","o","p","y","r","i","g","h","t">>], <<"A","c","m","e">>, FALSE),
    El("div",    [id |-> <<"m","a","i","n">>], <<>>, FALSE),
    El("a",      [rel |-> <<"l","i","c","e","n","s","e">>, href |-> <<"/","m","i","t">>], <<"M","I","T">>, FALSE) }

\* documents for the calls with include_tags, exclude_tags and signatures
OptElements ==
  { El("div",      NoAttrs, <<"H","i">>, FALSE),
    El("nav",      NoAttrs, <<"H","o","m","e">>, FALSE),
    El("noscript", NoAttrs, <<>>, FALSE),
    El("img",      [src |-> <<"/","a">>, srcset |-> <<"/","b"," ","2","x">>], <<>>, TRUE) }

\* parent vectors of the forests of MaxNodes elements in document order:
\* 0 is <body>, and the parent of i is i - 1 or one of its ancestors
RECURSIVE AncestorsOrSelf(_, _)
AncestorsOrSelf(par, i) ==
  IF i = 0 THEN {0} ELSE {i} \cup AncestorsOrSelf(par, par[i])

Shapes ==
  { par \in [Elems -> 0..(MaxNodes - 1)] :
      \A i \in Elems : /\ par[i] < i
                       /\ i > 1 => par[i] \in AncestorsOrSelf(par, i - 1) }

ChildrenOf(par, p) ==
  LET ks == {i \in Elems : par[i] = p}
      F[i \in 0..MaxNodes] ==
        IF i = 0 THEN <<>> ELSE IF i \in ks THEN Append(F[i - 1], i) ELSE F[i - 1]
  IN  F[MaxNodes]

\* parse_html().one(opts.html), with the nodes of the later
\* parse_html().one("<div></div>") already in the arena, not yet in use
Parse(par, el) ==
  [ children |->
      [n \in AllNodes |->
         CASE n \in Elems -> ChildrenOf(par, n)
           [] n = DOC     -> <<HTML>>
           [] n = HTML    -> <<HEAD, BODY>>
           [] n = BODY    -> ChildrenOf(par, 0)
           [] n = NDOC    -> <<NHTML>>
           [] n = NHTML   -> <<NHEAD, NBODY>>
           [] n = NBODY   -> <<NDIV>>
           [] OTHER       -> <<>>],
    tag |->
      [n \in AllNodes |->
         CASE n \in Elems          -> el[n].tag
           [] n \in {DOC, NDOC}    -> "#document"
           [] n \in {HTML, NHTML}  -> "html"
           [] n \in {HEAD, NHEAD}  -> "head"
           [] n \in {BODY, NBODY}  -> "body"
           [] OTHER                -> "div"],
    text  |-> [n \in AllNodes |-> IF n \in Elems THEN el[n].text ELSE <<>>],
    attrs |-> [n \in AllNodes |-> IF n \in Elems THEN el[n].attrs ELSE NoAttrs] ]

WellFormed(par, el) == \A i \in Elems : par[i] # 0 => ~el[par[i]].leaf

None == [some |-> FALSE, v |-> <<>>]
Some(x) == [some |-> TRUE, v |-> x]

Options(h, u, inc, exc, omc, sigs) ==
  [ html |-> h, url_ok |-> u, include_tags |-> inc, exclude_tags |-> exc,
    only_main_content |-> omc, omce_signatures |-> sigs ]

\* the elements attached below the document the pipeline works on
Attached(d, root) == {n \in Subtree(d, root) : IsElement(d, n)}

Output == Attached(dom, document)

(***************************************************************************)
(* _transform_html_inner.                                                  *)
(***************************************************************************)
NoLast == [what |-> "none", tag |-> 0]

\* lines 478-482: parse the document and the page URL, resolve the base href
Start ==
  /\ pc = "start"
  /\ pc' = IF opts.url_ok THEN "include" ELSE "err"
  /\ UNCHANGED <<opts, dom, document, sel, queue, last, out, link_open_count, res>>

\* lines 503-517: one iteration of the first of the five loops that still
\* finds a match, or the exit of the last one
StripStep ==
  /\ pc = "strip"
  /\ LET found == {i \in DOMAIN STRIP_TAGS :
                     select(dom, document, TagSel(STRIP_TAGS[i])) # <<>>}
     IN  IF found = {}
         THEN /\ pc' = "omce"
              /\ dom' = dom
         ELSE LET i == CHOOSE k \in found : \A j \in found : k <= j
                  x == Head(select(dom, document, TagSel(STRIP_TAGS[i])))
              IN  /\ dom' = detach(dom, x)
                  /\ pc' = pc
  /\ UNCHANGED <<opts, document, sel, queue, last, out, link_open_count, res>>

\* a stage that detaches the first match of every selector once
ExcludeStepOnce ==
  /\ pc = "exclude"
  /\ LET found == {i \in DOMAIN opts.exclude_tags :
                     /\ i > sel
                     /\ select_ok(opts.exclude_tags[i])
                     /\ select(dom, document, opts.exclude_tags[i]) # <<>>}
     IN  IF found = {}
         THEN /\ pc' = IF opts.only_main_content THEN "noise" ELSE "srcset"
              /\ dom' = dom
              /\ sel' = 0
         ELSE LET i == CHOOSE k \in found : \A j \in found : k <= j
                  x == Head(select(dom, document, opts.exclude_tags[i]))
              IN  /\ dom' = detach(dom, x)
                  /\ pc' = pc
                  /\ sel' = i
  /\ UNCHANGED <<opts, document, queue, last, out, link_open_count, res>>

\* lines 563-567: one iteration of the `while` loop of the selector being
\* processed, sel, or of the next selector of exclude_tags that finds a
\* match (select_first is Err both for no match and for a selector that does
\* not parse, and the selectors before sel are not tried again), or the exit
\* of the last loop
ExcludeStep ==
  /\ pc = "exclude"
  /\ LET found == {i \in DOMAIN opts.exclude_tags :
                     /\ i >= sel
                     /\ select_ok(opts.exclude_tags[i])
                     /\ select(dom, document, opts.exclude_tags[i]) # <<>>}
     IN  IF found = {}
         THEN /\ pc' = IF opts.only_main_content THEN "noise" ELSE "srcset"
              /\ dom' = dom
              /\ sel' = 0
         ELSE LET i == CHOOSE k \in found : \A j \in found : k <= j
                  x == Head(select(dom, document, opts.exclude_tags[i]))
              IN  /\ dom' = detach(dom, x)
                  /\ pc' = pc
                  /\ sel' = i
  /\ UNCHANGED <<opts, document, queue, last, out, link_open_count, res>>

\* lines 570-574: the next selector of EXCLUDE_NON_MAIN_TAGS that matches
\* anything has its matches collected (the ones before it match nothing and
\* their iterations change nothing), or the loop ends
NoiseCollect ==
  /\ pc = "noise"
  /\ queue = <<>>
  /\ LET found == {i \in DOMAIN EXCLUDE_NON_MAIN_TAGS :
                     /\ i > sel
                     /\ select(dom, document, EXCLUDE_NON_MAIN_TAGS[i]) # <<>>}
     IN  IF found = {}
         THEN /\ pc' = "srcset"
              /\ UNCHANGED <<sel, queue>>
         ELSE LET i == CHOOSE k \in found : \A j \in found : k <= j
              IN  /\ sel' = i
                  /\ queue' = select(dom, document, EXCLUDE_NON_MAIN_TAGS[i])
                  /\ pc' = pc
  /\ UNCHANGED <<opts, dom, document, last, out, link_open_count, res>>

\* an iteration that looks for force-include matches in the whole document
\* instead of below the match
NoiseTagByDocument ==
  /\ pc = "noise"
  /\ queue # <<>>
  /\ LET tag == Head(queue)
     IN  IF force_included(dom, document)
         THEN /\ dom' = dom
              /\ last' = [what |-> "forced", tag |-> tag]
         ELSE IF contains_attribution(dom, tag)
         THEN /\ dom' = strip_non_attribution_children(dom, tag)
              /\ last' = [what |-> "pruned", tag |-> tag]
         ELSE /\ dom' = detach(dom, tag)
              /\ last' = [what |-> "detached", tag |-> tag]
  /\ queue' = Tail(queue)
  /\ UNCHANGED <<opts, pc, document, sel, out, link_open_count, res>>

\* lines 575-589: one iteration of `for tag in x`
NoiseTag ==
  /\ pc = "noise"
  /\ queue # <<>>
  /\ LET tag == Head(queue)
     IN  IF force_included(dom, tag)
         THEN /\ dom' = dom
              /\ last' = [what |-> "forced", tag |-> tag]
         ELSE IF contains_attribution(dom, tag)
         THEN /\ dom' = strip_non_attribution_children(dom, tag)
              /\ last' = [what |-> "pruned", tag |-> tag]
         ELSE /\ dom' = detach(dom, tag)
              /\ last' = [what |-> "detached", tag |-> tag]
  /\ queue' = Tail(queue)
  /\ UNCHANGED <<opts, pc, document, sel, out, link_open_count, res>>

\* lines 495-497: `for tag in matching_nodes { root.append(tag) }`
RECURSIVE append_all(_, _, _)
append_all(d, root, nodes) ==
  IF nodes = <<>> THEN d
  ELSE append_all(append(d, root, Head(nodes)), root, Tail(nodes))

\* lines 490-498: the loop over include_tags; ok is FALSE when a selector
\* does not parse (`.map_err(..)?` returns from the call)
RECURSIVE include_loop(_, _)
include_loop(d, tags) ==
  IF tags = <<>> THEN [ok |-> TRUE, dom |-> d]
  ELSE IF ~select_ok(Head(tags)) THEN [ok |-> FALSE, dom |-> d]
  ELSE LET matching_nodes == select(d, DOC, Head(tags))
       IN  include_loop(append_all(d, NDIV, matching_nodes), Tail(tags))

\* lines 484-501
Include ==
  /\ pc = "include"
  /\ IF opts.include_tags = <<>>
     THEN /\ pc' = "strip"
          /\ UNCHANGED <<dom, document>>
     ELSE LET r == include_loop(dom, opts.include_tags)
          IN  /\ dom' = r.dom
              /\ pc' = IF r.ok THEN "strip" ELSE "err"
              /\ document' = IF r.ok THEN NDOC ELSE document
  /\ UNCHANGED <<opts, sel, queue, last, out, link_open_count, res>>

\* get_node_signature(node, mode) of the nodesig crate: an opaque
\* fingerprint of the node's subtree, tagged with the mode
get_node_signature(d, node, mode) ==
  [mode |-> mode, fp |-> <<d.tag[node], text_contents(d, node)>>]

\* str::trim().is_empty() of a text
trim_is_empty(txt) == \A i \in DOMAIN txt : txt[i] = " "

\* lines 537-554: the nodes one traversal marks for one mode
omce_marked(d, root, signatures, mode) ==
  LET sigs == {signatures[i] : i \in {j \in DOMAIN signatures :
                                        signatures[j].mode = mode}}
  IN  { n \in Subtree(d, root) :
          /\ IsElement(d, n)
          /\ ~trim_is_empty(text_contents(d, n))
          /\ get_node_signature(d, n, mode) \in sigs }

RECURSIVE detach_all(_, _)
detach_all(d, nodes) ==
  IF nodes = {} THEN d
  ELSE LET n == CHOOSE x \in nodes : TRUE
       IN  detach_all(detach(d, n), nodes \ {n})

\* a filter that detaches the marked nodes of a mode before the traversal
\* of the next mode
RECURSIVE omce_per_mode(_, _, _, _)
omce_per_mode(d, root, signatures, modes) ==
  IF modes = <<>> THEN d
  ELSE omce_per_mode(detach_all(d, omce_marked(d, root, signatures, Head(modes))),
                     root, signatures, Tail(modes))

OmceDetachPerMode ==
  /\ pc = "omce"
  /\ IF opts.only_main_content /\ opts.omce_signatures.some
     THEN LET signatures == opts.omce_signatures.v
          IN  dom' = omce_per_mode(dom, document, signatures,
                                   [i \in DOMAIN signatures |-> signatures[i].mode])
     ELSE dom' = dom
  /\ pc' = "exclude"
  /\ UNCHANGED <<opts, document, sel, queue, last, out, link_open_count, res>>

\* a signature filter that runs whenever signatures are given
OmceWithoutMainContent ==
  /\ pc = "omce"
  /\ IF opts.omce_signatures.some
     THEN LET signatures == opts.omce_signatures.v
              modes == {signatures[i].mode : i \in DOMAIN signatures}
              nodes_to_drop ==
                UNION {omce_marked(dom, document, signatures, m) : m \in modes}
          IN  dom' = detach_all(dom, nodes_to_drop)
     ELSE dom' = dom
  /\ pc' = "exclude"
  /\ UNCHANGED <<opts, document, sel, queue, last, out, link_open_count, res>>

\* lines 519-561
Omce ==
  /\ pc = "omce"
  /\ IF opts.only_main_content /\ opts.omce_signatures.some
     THEN LET signatures == opts.omce_signatures.v
              modes == {signatures[i].mode : i \in DOMAIN signatures}
              nodes_to_drop ==
                UNION {omce_marked(dom, document, signatures, m) : m \in modes}
          IN  dom' = detach_all(dom, nodes_to_drop)
     ELSE dom' = dom
  /\ pc' = "exclude"
  /\ UNCHANGED <<opts, document, sel, queue, last, out, link_open_count, res>>

(***************************************************************************)
(* Srcset resolution (lines 597-658).                                      *)
(***************************************************************************)
\* f64 values: the numbers the model's digits write, and NaN
Num(n) == [nan |-> FALSE, v |-> n]
NaN    == [nan |-> TRUE,  v |-> 0]

DIGITS == <<"0","1","2","3","4","5","6","7","8","9">>

DigitValue(c) == (CHOOSE i \in DOMAIN DIGITS : DIGITS[i] = c) - 1

RECURSIVE Decimal(_)
Decimal(s) ==
  IF s = <<>> THEN 0
  ELSE 10 * Decimal(SubSeq(s, 1, Len(s) - 1)) + DigitValue(s[Len(s)])

\* str::parse::<f64>() on the model's alphabet: a run of digits is its
\* number, "nan" in any letter case is NaN, anything else is an error
parse_f64(s) ==
  IF s # <<>> /\ \A i \in DOMAIN s : s[i] \in Range(DIGITS)
  THEN [ok |-> TRUE, v |-> Num(Decimal(s))]
  ELSE IF to_lowercase(s) = <<"n","a","n">>
  THEN [ok |-> TRUE, v |-> NaN]
  ELSE [ok |-> FALSE, v |-> NaN]

\* f64 `<`: false when either side is NaN
f64_lt(a, b) == ~a.nan /\ ~b.nan /\ a.v < b.v

\* the closure of filter_map (lines 604-633) on one piece of the srcset
parse_candidate(x) ==
  LET tok == split(trim(x), " ")
      tok_last == tok[Len(tok)]
      last_token_used ==
        /\ Len(tok) > 1
        /\ tok_last # <<>>
        /\ (ends_with(tok_last, "x") \/ ends_with(tok_last, "w"))
      last_token == IF last_token_used THEN tok_last ELSE <<"1","x">>
      parsed == parse_f64(SubSeq(last_token, 1, Len(last_token) - 1))
  IN  IF parsed.ok
      THEN Some([ url   |-> IF last_token_used
                            THEN join(SubSeq(tok, 1, Len(tok) - 1), <<" ">>)
                            ELSE join(tok, <<" ">>),
                  size  |-> parsed.v,
                  is_x  |-> ends_with(last_token, "x") ])
      ELSE None

\* Iterator::filter_map(..).collect()
RECURSIVE filter_map_candidates(_)
filter_map_candidates(pieces) ==
  IF pieces = <<>> THEN <<>>
  ELSE LET c == parse_candidate(Head(pieces))
       IN  (IF c.some THEN <<c.v>> ELSE <<>>) \o filter_map_candidates(Tail(pieces))

\* the comparator's is_less: compare(a, b) == Less, compare being
\* b.size.partial_cmp(&a.size).unwrap_or(Equal)
size_is_less(a, b) == f64_lt(b.size, a.size)

\* slice::sort_by on a short slice: a stable insertion sort, each element
\* shifted left past the elements it is less than
RECURSIVE insert_tail(_, _)
insert_tail(sorted, x) ==
  IF sorted # <<>> /\ size_is_less(x, sorted[Len(sorted)])
  THEN Append(insert_tail(SubSeq(sorted, 1, Len(sorted) - 1), x), sorted[Len(sorted)])
  ELSE Append(sorted, x)

RECURSIVE sort_by_size(_)
sort_by_size(v) ==
  IF v = <<>> THEN <<>>
  ELSE insert_tail(sort_by_size(SubSeq(v, 1, Len(v) - 1)), v[Len(v)])

\* lines 598-644: `sizes` before the sort
srcset_sizes(at) ==
  LET sizes == filter_map_candidates(split(at["srcset"], ","))
  IN  IF (\A i \in DOMAIN sizes : sizes[i].is_x) /\ "src" \in DOMAIN at
      THEN Append(sizes, [url |-> at["src"], size |-> Num(1), is_x |-> TRUE])
      ELSE sizes

\* Attributes::insert
insert_attr(at, name, value) ==
  [a \in DOMAIN at \cup {name} |-> IF a = name THEN value ELSE at[a]]

\* lines 597-658 for one img[srcset]: its attributes afterwards
resolve_srcset(at) ==
  LET sizes == sort_by_size(srcset_sizes(at))
  IN  IF sizes # <<>> THEN insert_attr(at, "src", sizes[1].url) ELSE at

\* lines 593-658
Srcset ==
  /\ pc = "srcset"
  /\ LET srcset_images == Range(select(dom, document, AttrHas("img", "srcset")))
     IN  dom' = [dom EXCEPT !.attrs =
                   [n \in DOMAIN dom.attrs |->
                      IF n \in srcset_images THEN resolve_srcset(dom.attrs[n])
                      ELSE dom.attrs[n]]]
  /\ pc' = "absolutize"
  /\ UNCHANGED <<opts, document, sel, queue, last, out, link_open_count, res>>

(***************************************************************************)
(* URL absolutization (lines 660-693).                                     *)
(***************************************************************************)
\* the page URL the model's calls are made with
BASE_URL == <<"h","t","t","p","s",":","/","/","e",".","i","o","/">>

\* the scheme of a reference: the letters before its first colon, lower-cased
url_scheme(s) ==
  LET p == split(s, ":")
  IN  IF /\ Len(p) > 1 /\ p[1] # <<>>
         /\ \A i \in DOMAIN p[1] : p[1][i] \in Range(UPPER) \cup Range(LOWER)
      THEN Some(to_lowercase(p[1])) ELSE None

\* Url::parse(s) of the url crate, for the references the model uses: a
\* string without a scheme is no absolute URL, an http(s) URL is written
\* with // and needs a host, and the scheme is serialized in lower case
url_parse(s) ==
  LET scheme == url_scheme(s)
      rest == SubSeq(s, Len(scheme.v) + 2, Len(s))
  IN  IF ~scheme.some THEN [ok |-> FALSE, v |-> <<>>]
      ELSE IF scheme.v \in {<<"h","t","t","p">>, <<"h","t","t","p","s">>}
      THEN IF /\ starts_with(rest, <<"/","/">>)
              /\ split(SubSeq(rest, 3, Len(rest)), "/")[1] # <<>>
           THEN [ok |-> TRUE, v |-> scheme.v \o <<":">> \o rest]
           ELSE [ok |-> FALSE, v |-> <<>>]
      ELSE [ok |-> TRUE, v |-> scheme.v \o <<":">> \o rest]

\* Url::join(base, s) of the url crate, for the references the model uses:
\* a reference with a scheme stands for itself, a protocol-relative one takes
\* the scheme of the base, a path is put below the origin of the base, and
\* another reference below its directory
url_join(base, s) ==
  LET pieces == split(base, "/")
      origin == join(SubSeq(pieces, 1, 3), <<"/">>)
      directory == join(SubSeq(pieces, 1, Len(pieces) - 1), <<"/">>) \o <<"/">>
  IN  IF url_scheme(s).some THEN url_parse(s)
      ELSE IF starts_with(s, <<"/","/">>)
      THEN url_parse(url_scheme(base).v \o <<":">> \o s)
      ELSE IF starts_with(s, <<"/">>) THEN [ok |-> TRUE, v |-> origin \o s]
      ELSE [ok |-> TRUE, v |-> directory \o s]

\* lines 664-674 and 680-692 for one element and its src or href
absolutize(at, name) ==
  LET new == url_join(BASE_URL, at[name])
  IN  IF new.ok THEN insert_attr(at, name, new.v) ELSE at

Absolutize ==
  /\ pc = "absolutize"
  /\ LET src_images == Range(select(dom, document, AttrHas("img", "src")))
         href_anchors == Range(select(dom, document, AttrHas("a", "href")))
     IN  dom' = [dom EXCEPT !.attrs =
                   [n \in DOMAIN dom.attrs |->
                      IF n \in src_images THEN absolutize(dom.attrs[n], "src")
                      ELSE IF n \in href_anchors THEN absolutize(dom.attrs[n], "href")
                      ELSE dom.attrs[n]]]
  /\ pc' = "done"
  /\ UNCHANGED <<opts, document, sel, queue, last, out, link_open_count, res>>

(***************************************************************************)
(* The transform_html call.                                                *)
(***************************************************************************)
\* the state of a call on entry: the parsed input, nothing done yet
Called(o) ==
  /\ opts = o
  /\ dom = o.html
  /\ document = DOC
  /\ pc = "start"
  /\ sel = 0
  /\ queue = <<>>
  /\ last = NoLast
  /\ out = <<>>
  /\ link_open_count = 0
  /\ res = <<>>

Init ==
  \E par \in Shapes : \E el \in [Elems -> NoiseElements] :
     /\ WellFormed(par, el)
     /\ Called(Options(Parse(par, el), TRUE, <<>>, <<>>, TRUE, None))

\* the options of the calls with include_tags, exclude_tags and signatures
OptChoices ==
  LET O(u, inc, exc, omc, sigs) ==
        [url_ok |-> u, include_tags |-> inc, exclude_tags |-> exc,
         only_main_content |-> omc, omce_signatures |-> sigs]
      sig == [mode |-> "m1", fp |-> <<"nav", <<"H","o","m","e">>>>]
      sig2 == [mode |-> "m2", fp |-> <<"div", <<"H","i","H","o","m","e">>>>]
  IN  { O(TRUE,  <<>>, <<>>, FALSE, None),
        O(TRUE,  <<>>, <<TagSel("div")>>, FALSE, None),
        O(TRUE,  <<TagSel("nav"), TagSel("div")>>, <<>>, FALSE, None),
        O(TRUE,  <<TagSel("div"), TagSel("nav"), TagSel("div")>>, <<>>, FALSE, None),
        O(TRUE,  <<TagSel("div"), BadSel>>, <<>>, FALSE, None),
        O(TRUE,  <<>>, <<BadSel, TagSel("nav")>>, TRUE, None),
        O(TRUE,  <<>>, <<>>, TRUE, Some(<<sig>>)),
        O(TRUE,  <<>>, <<>>, TRUE, Some(<<sig, sig2>>)),
        O(TRUE,  <<>>, <<>>, FALSE, Some(<<sig>>)),
        O(TRUE,  <<TagSel("div")>>, <<TagSel("img")>>, TRUE, None),
        O(FALSE, <<>>, <<>>, FALSE, None) }

InitOpts ==
  \E par \in Shapes : \E el \in [Elems -> OptElements] : \E o \in OptChoices :
     /\ WellFormed(par, el)
     /\ Called(Options(Parse(par, el), o.url_ok, o.include_tags, o.exclude_tags,
                       o.only_main_content, o.omce_signatures))

\* srcset values of 1..MaxCandidates candidates, the i-th with the i-th URL
\* and one of the descriptors: none, a density, a NaN density, a width
CandidateUrls == <<"a","b","c","d","e","f","g","h">>
Descriptors == { <<>>, <<" ","2","x">>, <<" ","n","a","n","x">>, <<" ","9","w">> }

SrcsetValues ==
  UNION { { join([i \in 1..n |-> <<CandidateUrls[i]>> \o ds[i]], <<","," ">>) :
              ds \in [1..n -> Descriptors] } : n \in 1..MaxCandidates }

\* srcset values with an empty entry: the empty string, white space, and
\* nothing before, after or between commas
SrcsetEmptyEntries ==
  { <<>>, <<" ">>, <<",">>, <<"a"," ","2","x",","," ">>, <<"a"," ","2","x",","," ",","," ","b"," ","9","w">> }

\* documents whose first element is an img[srcset], with or without a src,
\* followed by nav elements
InitSrcset ==
  \E par \in Shapes : \E v \in SrcsetValues \cup SrcsetEmptyEntries : \E src \in {None, Some(<<"o">>)} :
     LET img == El("img", IF src.some THEN [srcset |-> v, src |-> src.v]
                          ELSE [srcset |-> v], <<>>, TRUE)
         el  == [i \in Elems |-> IF i = 1 THEN img
                                 ELSE El("nav", NoAttrs, <<"H","o","m","e">>, FALSE)]
     IN  /\ WellFormed(par, el)
         /\ Called(Options(Parse(par, el), TRUE, <<>>, <<>>, TRUE, None))

Next ==
  \/ Start
  \/ Include
  \/ StripStep
  \/ Omce
  \/ ExcludeStep
  \/ NoiseCollect
  \/ NoiseTag
  \/ Srcset
  \/ Absolutize

\* transform_html on documents with noise containers and attribution
Spec == Init /\ [][Next]_vars

\* transform_html with include_tags, exclude_tags and signatures
SpecOpts == InitOpts /\ [][Next]_vars

SpecSrcset == InitSrcset /\ [][Next]_vars

\* documents and exclude_tags with selectors whose matches change as
\* elements are detached
ExcludeElements ==
  { El("div", NoAttrs, <<>>, FALSE),
    El("nav", NoAttrs, <<"H","o","m","e">>, FALSE),
    El("p",   NoAttrs, <<"H","i">>, FALSE) }

ExcludeChoices ==
  LET O(exc, omc) ==
        [url_ok |-> TRUE, include_tags |-> <<>>, exclude_tags |-> exc,
         only_main_content |-> omc, omce_signatures |-> None]
  IN  { O(<<EmptySel("div"), TagSel("nav")>>, FALSE),
        O(<<TagSel("nav"), EmptySel("div")>>, FALSE),
        O(<<TagSel("p"), BadSel, EmptySel("*")>>, FALSE),
        O(<<TagSel("div")>>, TRUE),
        O(<<>>, TRUE) }

InitExclude ==
  \E par \in Shapes : \E el \in [Elems -> ExcludeElements] : \E o \in ExcludeChoices :
     /\ WellFormed(par, el)
     /\ Called(Options(Parse(par, el), o.url_ok, o.include_tags, o.exclude_tags,
                       o.only_main_content, o.omce_signatures))

\* transform_html with exclude_tags
SpecExclude == InitExclude /\ [][Next]_vars

(***************************************************************************)
(* extract_links (lines 124-164).                                          *)
(***************************************************************************)
\* &s[n..] of a string of one-byte characters
slice_from(s, n) == SubSeq(s, n + 1, Len(s))

\* a repair that does not look for the second slash
repair_href_any_slash(href) ==
  IF starts_with(href, <<"h","t","t","p",":","/">>)
  THEN <<"h","t","t","p",":","/","/">> \o slice_from(href, 6)
  ELSE IF starts_with(href, <<"h","t","t","p","s",":","/">>)
  THEN <<"h","t","t","p","s",":","/","/">> \o slice_from(href, 7)
  ELSE href

\* lines 146-150
repair_href(href) ==
  IF starts_with(href, <<"h","t","t","p",":","/">>) /\ ~starts_with(href, <<"h","t","t","p",":","/","/">>)
  THEN <<"h","t","t","p",":","/","/">> \o slice_from(href, 6)
  ELSE IF starts_with(href, <<"h","t","t","p","s",":","/">>) /\ ~starts_with(href, <<"h","t","t","p","s",":","/","/">>)
  THEN <<"h","t","t","p","s",":","/","/">> \o slice_from(href, 7)
  ELSE href

\* lines 127-139: None returns the empty list; Some is parsed and its
\* a[href] elements collected
LinksStart ==
  /\ pc = "links"
  /\ IF opts.some
     THEN /\ queue' = select(dom, document, AttrHas("a", "href"))
          /\ pc' = "links_loop"
     ELSE /\ queue' = <<>>
          /\ pc' = "links_done"
  /\ out' = <<>>
  /\ UNCHANGED <<opts, dom, document, sel, last, link_open_count, res>>

\* lines 141-153: one iteration of `for anchor in anchors`
LinksAnchor ==
  /\ pc = "links_loop"
  /\ queue # <<>>
  /\ LET anchor == Head(queue)
     IN  out' = IF HasAttr(dom, anchor, "href")
                THEN Append(out, repair_href(dom.attrs[anchor]["href"]))
                ELSE out
  /\ queue' = Tail(queue)
  /\ UNCHANGED <<opts, pc, dom, document, sel, last, link_open_count, res>>

\* line 155: Ok(out)
LinksReturn ==
  /\ pc = "links_loop"
  /\ queue = <<>>
  /\ pc' = "links_done"
  /\ UNCHANGED <<opts, dom, document, sel, queue, last, out, link_open_count, res>>

\* documents with anchors whose href has one slash, two, or no scheme, an
\* anchor without href and a container
LinkElements ==
  { El("a",   [href |-> <<"h","t","t","p",":","/","e",".","i","o">>], <<>>, FALSE),
    El("a",   [href |-> <<"h","t","t","p","s",":","/","e",".","i","o">>], <<>>, FALSE),
    El("a",   [href |-> <<"h","t","t","p",":","/","/","e",".","i","o">>], <<>>, FALSE),
    El("a",   [href |-> <<"h","t","t","p","s",":","/","/","e",".","i","o">>], <<>>, FALSE),
    El("a",   [href |-> <<"h","t","t","p","s",":","/">>], <<>>, FALSE),
    El("a",   [href |-> <<"/","x">>], <<>>, FALSE),
    El("a",   [name |-> <<"t","o","p">>], <<>>, FALSE),
    El("div", [href |-> <<"h","t","t","p",":","/","e",".","i","o">>], <<>>, FALSE) }

\* the state of an extract_links call on entry
InitLinks ==
  /\ \/ \E par \in Shapes : \E el \in [Elems -> LinkElements] :
          /\ opts = Some(Parse(par, el))
          /\ dom = Parse(par, el)
     \/ /\ opts = None
        /\ dom = Parse([i \in Elems |-> 0], [i \in Elems |-> El("div", NoAttrs, <<>>, FALSE)])
  /\ document = DOC
  /\ pc = "links"
  /\ sel = 0
  /\ queue = <<>>
  /\ last = NoLast
  /\ out = <<>>
  /\ link_open_count = 0
  /\ res = <<>>

NextLinks ==
  \/ LinksStart
  \/ LinksAnchor
  \/ LinksReturn

SpecLinks == InitLinks /\ [][NextLinks]_vars

(***************************************************************************)
(* post_process_markdown (lines 1001-1037) and                             *)
(* remove_skip_to_content_links (lines 1379-1420).  A text is a sequence   *)
(* of characters; its bytes are those characters, the two-byte character   *)
(* standing as its lead byte and its continuation byte.                    *)
(***************************************************************************)
TWO_BYTE_CHAR == "é"
LEAD_BYTE == "C3"
CONTINUATION_BYTE == "A9"

\* str::as_bytes
RECURSIVE as_bytes(_)
as_bytes(s) ==
  IF s = <<>> THEN <<>>
  ELSE (IF Head(s) = TWO_BYTE_CHAR THEN <<LEAD_BYTE, CONTINUATION_BYTE>>
        ELSE <<Head(s)>>) \o as_bytes(Tail(s))

\* u8::is_ascii
is_ascii(b) == b \notin {LEAD_BYTE, CONTINUATION_BYTE}

\* char::len_utf8 of the character that starts at byte i (from 0)
len_utf8_at(bytes, i) == IF bytes[i + 1] = LEAD_BYTE THEN 2 ELSE 1

\* a subtraction that goes below zero
minus(a, b) == a - b

\* usize::saturating_sub
saturating_sub(a, b) == IF a >= b THEN a - b ELSE 0

\* a comparison that tells the letter cases apart
eq_exact(a, b) == a = b

\* str::eq_ignore_ascii_case
eq_ignore_ascii_case(a, b) ==
  /\ Len(a) = Len(b)
  /\ \A i \in DOMAIN a : lower_char(a[i]) = lower_char(b[i])

\* line 1380
LABEL == <<"S","k","i","p"," ","t","o"," ","C","o","n","t","e","n","t">>

\* lines 1402-1411: the byte index after the first ')' at or after j, or -1
RECURSIVE find_close(_, _)
find_close(bytes, j) ==
  IF j >= Len(bytes) THEN -1
  ELSE IF bytes[j + 1] = ")" THEN j + 1
  ELSE find_close(bytes, j + len_utf8_at(bytes, j))

\* lines 1387-1413: where the scan continues when a skip link starts at byte
\* i, or -1 when none does
skip_link_end(bytes, i) ==
  LET len == Len(bytes)
      label_start == i + 1
      label_end == label_start + Len(LABEL)
  IN  IF /\ bytes[i + 1] = "["
         /\ label_end <= len
         /\ \A k \in (label_start + 1)..label_end : is_ascii(bytes[k])
         /\ eq_ignore_ascii_case(SubSeq(bytes, label_start + 1, label_end), LABEL)
         /\ label_end + 3 <= len
         /\ bytes[label_end + 1] = "]"
         /\ bytes[label_end + 2] = "("
         /\ bytes[label_end + 3] = "#"
      THEN find_close(bytes, label_end + 3)
      ELSE -1

\* lines 1386-1418: the loop 'outer from byte i on, o being `out`
RECURSIVE skip_scan(_, _, _)
skip_scan(bytes, i, o) ==
  IF i >= Len(bytes) THEN o
  ELSE LET e == skip_link_end(bytes, i)
           n == len_utf8_at(bytes, i)
       IN  IF e >= 0 THEN skip_scan(bytes, e, o)
           ELSE skip_scan(bytes, i + n, o \o SubSeq(bytes, i + 1, i + n))

remove_skip_to_content_links(input) == skip_scan(as_bytes(input), 0, <<>>)

\* lines 1008-1025: one iteration of `for ch in markdown.chars()`
MarkdownChar ==
  /\ pc = "md_pass1"
  /\ queue # <<>>
  /\ LET ch == Head(queue)
         count == IF ch = "[" THEN link_open_count + 1
                  ELSE IF ch = "]" THEN saturating_sub(link_open_count, 1)
                  ELSE link_open_count
         inside_link_content == count > 0
     IN  /\ link_open_count' = count
         /\ out' = IF inside_link_content /\ ch = "\n"
                   THEN out \o <<"\\", "\n">>
                   ELSE Append(out, ch)
  /\ queue' = Tail(queue)
  /\ UNCHANGED <<opts, pc, dom, document, sel, last, res>>

\* line 1027: the loop is over, the second pass makes the returned text
RemoveSkipLinks ==
  /\ pc = "md_pass1"
  /\ queue = <<>>
  /\ res' = remove_skip_to_content_links(out)
  /\ pc' = "md_done"
  /\ UNCHANGED <<opts, dom, document, sel, queue, last, out, link_open_count>>

\* the pieces the markdown inputs are made of: a skip link in mixed case,
\* the two halves of one, one without its closing parenthesis, the
\* parenthesis, a newline and a two-byte character
MarkdownPieces ==
  { <<"[","s","k","i","p"," ","t","o"," ","C","O","N","T","E","N","T","]","(","#","m",")">>,
    <<"[","S","k","i","p"," ","t","o"," ","C","o","n">>,
    <<"t","e","n","t","]","(","#","y",")">>,
    <<"[","S","k","i","p"," ","t","o"," ","C","o","n","t","e","n","t","]","(","#","u">>,
    <<")">>,
    <<"\n">>,
    <<TWO_BYTE_CHAR>> }

Markdowns ==
  UNION { { Concat(ps) : ps \in [1..n -> MarkdownPieces] } : n \in 0..MaxPieces }

\* the state of a post_process_markdown call on entry
InitMarkdown ==
  /\ opts \in Markdowns
  /\ queue = opts
  /\ pc = "md_pass1"
  /\ out = <<>>
  /\ link_open_count = 0
  /\ res = <<>>
  /\ dom = Parse([i \in Elems |-> 0], [i \in Elems |-> El("div", NoAttrs, <<>>, FALSE)])
  /\ document = DOC
  /\ sel = 0
  /\ last = NoLast

NextMarkdown ==
  \/ MarkdownChar
  \/ RemoveSkipLinks

SpecMarkdown == InitMarkdown /\ [][NextMarkdown]_vars

(***************************************************************************)
(* extract_metadata and _extract_metadata (lines 204-393).  The map `out`  *)
(* is a function from keys to values, a value being a String or an Array   *)
(* of strings.                                                             *)
(***************************************************************************)
String(x) == [t |-> "String", v |-> x]
Array(xs) == [t |-> "Array", v |-> xs]

\* HashMap::new
EmptyMap == <<>>

\* HashMap::insert
insert(m, k, v) == [x \in DOMAIN m \cup {k} |-> IF x = k THEN v ELSE m[x]]

\* `.next().and_then(|x| x.attributes.borrow().get(a)...)` on the matches
\* of selector s below root
first_attr(d, root, s, a) ==
  LET m == select(d, root, s)
  IN  IF m # <<>> /\ HasAttr(d, m[1], a) THEN Some(d.attrs[m[1]][a]) ELSE None

\* lines 166-202: insert_meta_name! and insert_meta_property!, attr being
\* "name" or "property"
insert_meta(o, d, root, attr, metaName, outName) ==
  LET x == first_attr(d, root, AttrEq("meta", attr, metaName), "content")
  IN  IF x.some THEN insert(o, outName, String(x.v)) ELSE o

\* lines 251-257 and 281-296: the fixed meta mappings in the order of the
\* calls, head telling the ones that search below search_root
FIXED_META ==
  LET M(h, a, m, o) == [head |-> h, attr |-> a, meta |-> m, out |-> o]
  IN  << M(TRUE,  "property", <<"o","g",":","t","i","t","l","e">>,       <<"o","g","T","i","t","l","e">>),
         M(TRUE,  "property", <<"o","g",":","d","e","s","c","r","i","p","t","i","o","n">>, <<"o","g","D","e","s","c","r","i","p","t","i","o","n">>),
         M(TRUE,  "property", <<"o","g",":","u","r","l">>,         <<"o","g","U","r","l">>),
         M(TRUE,  "property", <<"o","g",":","i","m","a","g","e">>,       <<"o","g","I","m","a","g","e">>),
         M(TRUE,  "property", <<"o","g",":","a","u","d","i","o">>,       <<"o","g","A","u","d","i","o">>),
         M(TRUE,  "property", <<"o","g",":","d","e","t","e","r","m","i","n","e","r">>,  <<"o","g","D","e","t","e","r","m","i","n","e","r">>),
         M(TRUE,  "property", <<"o","g",":","l","o","c","a","l","e">>,      <<"o","g","L","o","c","a","l","e">>),
         M(FALSE, "property", <<"o","g",":","s","i","t","e","_","n","a","m","e">>,   <<"o","g","S","i","t","e","N","a","m","e">>),
         M(FALSE, "property", <<"o","g",":","v","i","d","e","o">>,       <<"o","g","V","i","d","e","o">>),
         M(FALSE, "name",     <<"a","r","t","i","c","l","e",":","s","e","c","t","i","o","n">>, <<"a","r","t","i","c","l","e","S","e","c","t","i","o","n">>),
         M(FALSE, "name",     <<"a","r","t","i","c","l","e",":","t","a","g">>,    <<"a","r","t","i","c","l","e","T","a","g">>),
         M(FALSE, "property", <<"a","r","t","i","c","l","e",":","p","u","b","l","i","s","h","e","d","_","t","i","m","e">>, <<"p","u","b","l","i","s","h","e","d","T","i","m","e">>),
         M(FALSE, "property", <<"a","r","t","i","c","l","e",":","m","o","d","i","f","i","e","d","_","t","i","m","e">>,  <<"m","o","d","i","f","i","e","d","T","i","m","e">>),
         M(FALSE, "name",     <<"d","c","t","e","r","m","s",".","k","e","y","w","o","r","d","s">>, <<"d","c","T","e","r","m","s","K","e","y","w","o","r","d","s">>),
         M(FALSE, "name",     <<"d","c",".","d","e","s","c","r","i","p","t","i","o","n">>, <<"d","c","D","e","s","c","r","i","p","t","i","o","n">>),
         M(FALSE, "name",     <<"d","c",".","s","u","b","j","e","c","t">>,     <<"d","c","S","u","b","j","e","c","t">>),
         M(FALSE, "name",     <<"d","c","t","e","r","m","s",".","s","u","b","j","e","c","t">>, <<"d","c","T","e","r","m","s","S","u","b","j","e","c","t">>),
         M(FALSE, "name",     <<"d","c","t","e","r","m","s",".","a","u","d","i","e","n","c","e">>, <<"d","c","T","e","r","m","s","A","u","d","i","e","n","c","e">>),
         M(FALSE, "name",     <<"d","c",".","t","y","p","e">>,        <<"d","c","T","y","p","e">>),
         M(FALSE, "name",     <<"d","c","t","e","r","m","s",".","t","y","p","e">>,   <<"d","c","T","e","r","m","s","T","y","p","e">>),
         M(FALSE, "name",     <<"d","c",".","d","a","t","e">>,        <<"d","c","D","a","t","e">>),
         M(FALSE, "name",     <<"d","c",".","d","a","t","e",".","c","r","e","a","t","e","d">>, <<"d","c","D","a","t","e","C","r","e","a","t","e","d">>),
         M(FALSE, "name",     <<"d","c","t","e","r","m","s",".","c","r","e","a","t","e","d">>, <<"d","c","T","e","r","m","s","C","r","e","a","t","e","d">>) >>

\* the calls of the two macros from the i-th on
RECURSIVE insert_fixed(_, _, _, _)
insert_fixed(o, d, search_root, i) ==
  IF i > Len(FIXED_META) THEN o
  ELSE LET m == FIXED_META[i]
           root == IF m.head THEN search_root ELSE DOC
       IN  insert_fixed(insert_meta(o, d, root, m.attr, m.meta, m.out),
                        d, search_root, i + 1)

\* lines 259-279: the loop over meta[property="og:locale:alternate"]
RECURSIVE locale_alternates(_, _, _)
locale_alternates(o, d, metas) ==
  IF metas = <<>> THEN o
  ELSE LET attrs == d.attrs[Head(metas)]
           key == <<"o","g","L","o","c","a","l","e","A","l","t","e","r","n","a","t","e">>
           o1 == IF "content" \in DOMAIN attrs
                 THEN IF key \in DOMAIN o
                      THEN insert(o, key, Array(Append(o[key].v, attrs["content"])))
                      ELSE insert(o, key, Array(<<attrs["content"]>>))
                 ELSE o
       IN  locale_alternates(o1, d, Tail(metas))

\* lines 209-296: `out` when the generic pass begins
fixed_out(d) ==
  LET head_node == select(d, DOC, TagSel("head"))
      search_root == IF head_node # <<>> THEN Head(head_node) ELSE DOC
      title == select(d, search_root, TagSel("title"))
      o1 == IF title # <<>>
            THEN insert(EmptyMap, <<"t","i","t","l","e">>, String(text_contents(d, Head(title))))
            ELSE EmptyMap
      icon == first_attr(d, search_root, AttrEq("link", "rel", <<"i","c","o","n">>), "href")
      favicon_link == IF icon.some THEN icon
                      ELSE first_attr(d, search_root, AttrSub("link", "rel", <<"i","c","o","n">>), "href")
      o2 == IF favicon_link.some THEN insert(o1, <<"f","a","v","i","c","o","n">>, String(favicon_link.v)) ELSE o1
      lang == first_attr(d, DOC, AttrHas("html", "lang"), "lang")
      o3 == IF lang.some THEN insert(o2, <<"l","a","n","g","u","a","g","e">>, String(lang.v)) ELSE o2
      o4 == insert_fixed(o3, d, search_root, 1)
      o5 == locale_alternates(o4, d,
              select(d, search_root, AttrEq("meta", "property", <<"o","g",":","l","o","c","a","l","e",":","a","l","t","e","r","n","a","t","e">>)))
  IN  insert_fixed(o5, d, search_root, 8)

\* lines 305-308: the key of a meta element
meta_name(attrs) ==
  IF "name" \in DOMAIN attrs THEN Some(attrs["name"])
  ELSE IF "property" \in DOMAIN attrs THEN Some(attrs["property"])
  ELSE IF "itemprop" \in DOMAIN attrs THEN Some(attrs["itemprop"])
  ELSE None

\* a merge that treats description as every other key
merge_meta_all_arrays(o, attrs) ==
  LET name == meta_name(attrs)
  IN  IF name.some /\ "content" \in DOMAIN attrs
      THEN LET content == attrs["content"]
           IN  IF name.v \in DOMAIN o
               THEN IF o[name.v].t = "String"
                    THEN IF name.v # <<"t","i","t","l","e">>
                         THEN insert(o, name.v, Array(<<o[name.v].v, content>>))
                         ELSE o
                    ELSE insert(o, name.v, Array(Append(o[name.v].v, content)))
               ELSE insert(o, name.v, String(content))
      ELSE o

\* a merge that joins the Array of every key back into a String
merge_meta_join_arrays(o, attrs) ==
  LET name == meta_name(attrs)
  IN  IF name.some /\ "content" \in DOMAIN attrs
      THEN LET content == attrs["content"]
           IN  IF name.v \in DOMAIN o
               THEN IF o[name.v].t = "String"
                    THEN IF name.v = <<"d","e","s","c","r","i","p","t","i","o","n">>
                         THEN insert(o, name.v, String(o[name.v].v \o <<","," ">> \o content))
                         ELSE IF name.v # <<"t","i","t","l","e">>
                         THEN insert(o, name.v, Array(<<o[name.v].v, content>>))
                         ELSE o
                    ELSE insert(o, name.v,
                                String(join(Append(o[name.v].v, content), <<","," ">>)))
               ELSE insert(o, name.v, String(content))
      ELSE o

\* lines 302-353: the body of the loop of the generic pass
merge_meta(o, attrs) ==
  LET name == meta_name(attrs)
  IN  IF name.some /\ "content" \in DOMAIN attrs
      THEN LET content == attrs["content"]
           IN  IF name.v \in DOMAIN o
               THEN IF o[name.v].t = "String"
                    THEN IF name.v = <<"d","e","s","c","r","i","p","t","i","o","n">>
                         THEN insert(o, name.v, String(o[name.v].v \o <<","," ">> \o content))
                         ELSE IF name.v # <<"t","i","t","l","e">>
                         THEN insert(o, name.v, Array(<<o[name.v].v, content>>))
                         ELSE o
                    ELSE IF name.v = <<"d","e","s","c","r","i","p","t","i","o","n">>
                         THEN insert(o, name.v,
                                     String(join(Append(o[name.v].v, content), <<","," ">>)))
                         ELSE insert(o, name.v, Array(Append(o[name.v].v, content)))
               ELSE insert(o, name.v, String(content))
      ELSE o

\* lines 357-370: the title of the fallback
fallback_title(o) ==
  LET first == IF <<"o","g","T","i","t","l","e">> \in DOMAIN o THEN Some(o[<<"o","g","T","i","t","l","e">>])
               ELSE IF <<"o","g",":","t","i","t","l","e">> \in DOMAIN o THEN Some(o[<<"o","g",":","t","i","t","l","e">>])
               ELSE IF <<"t","w","i","t","t","e","r",":","t","i","t","l","e">> \in DOMAIN o THEN Some(o[<<"t","w","i","t","t","e","r",":","t","i","t","l","e">>])
               ELSE None
  IN  IF first.some /\ first.v.t = "String" /\ first.v.v # <<>>
      THEN Some(first.v.v) ELSE None

\* lines 379-382 and 207-296: None returns the empty map; Some is parsed,
\* the fixed mappings fill `out`, the meta elements are selected
MetaFixed ==
  /\ pc = "meta"
  /\ IF opts.some
     THEN /\ out' = fixed_out(dom)
          /\ queue' = select(dom, DOC, TagSel("meta"))
          /\ pc' = "meta_generic"
     ELSE /\ out' = EmptyMap
          /\ queue' = <<>>
          /\ pc' = "meta_done"
  /\ UNCHANGED <<opts, dom, document, sel, last, link_open_count, res>>

\* lines 298-354: one iteration of `for meta in document.select("meta")`
MetaMerge ==
  /\ pc = "meta_generic"
  /\ queue # <<>>
  /\ out' = merge_meta(out, dom.attrs[Head(queue)])
  /\ queue' = Tail(queue)
  /\ UNCHANGED <<opts, pc, dom, document, sel, last, link_open_count, res>>

\* lines 356-372: the title fallback and the return
MetaBackfill ==
  /\ pc = "meta_generic"
  /\ queue = <<>>
  /\ out' = IF <<"t","i","t","l","e">> \notin DOMAIN out /\ fallback_title(out).some
            THEN insert(out, <<"t","i","t","l","e">>, String(fallback_title(out).v))
            ELSE out
  /\ pc' = "meta_done"
  /\ UNCHANGED <<opts, dom, document, sel, queue, last, link_open_count, res>>

\* documents of meta elements keyed description, language and
\* og:locale:alternate, one of them without content
MetaElements ==
  LET Meta(at) == El("meta", at, <<>>, TRUE)
  IN  { Meta([name |-> <<"d","e","s","c","r","i","p","t","i","o","n">>, content |-> <<"a">>]),
        Meta([name |-> <<"d","e","s","c","r","i","p","t","i","o","n">>, content |-> <<"b">>]),
        Meta([name |-> <<"l","a","n","g","u","a","g","e">>, content |-> <<"a">>]),
        Meta([name |-> <<"l","a","n","g","u","a","g","e">>, content |-> <<"b">>]),
        Meta([property |-> <<"o","g",":","l","o","c","a","l","e",":","a","l","t","e","r","n","a","t","e">>, content |-> <<"x">>]),
        Meta([property |-> <<"o","g",":","l","o","c","a","l","e",":","a","l","t","e","r","n","a","t","e">>, content |-> <<"y">>]),
        Meta([property |-> <<"o","g",":","l","o","c","a","l","e",":","a","l","t","e","r","n","a","t","e">>]) }

\* the document whose first k elements stand in <head> and whose other
\* elements (the last one, or none) stand in <body>, <html> having the lang attribute or not
ParseHead(k, el, lang) ==
  LET d == Parse([i \in Elems |-> 0], el)
  IN  [d EXCEPT !.children[HEAD] = [i \in 1..k |-> i],
                !.children[BODY] = [i \in 1..(MaxNodes - k) |-> k + i],
                !.attrs[HTML] = IF lang.some THEN [lang |-> lang.v] ELSE NoAttrs]

\* the state of an extract_metadata call on entry
InitMeta ==
  /\ \/ \E k \in (MaxNodes - 1)..MaxNodes : \E el \in [Elems -> MetaElements] :
        \E lang \in {None, Some(<<"f","r">>)} :
          /\ opts = Some(ParseHead(k, el, lang))
          /\ dom = ParseHead(k, el, lang)
     \/ /\ opts = None
        /\ dom = Parse([i \in Elems |-> 0], [i \in Elems |-> El("div", NoAttrs, <<>>, FALSE)])
  /\ document = DOC
  /\ pc = "meta"
  /\ sel = 0
  /\ queue = <<>>
  /\ last = NoLast
  /\ out = EmptyMap
  /\ link_open_count = 0
  /\ res = <<>>

\* documents with a title element and meta elements keyed og:title (one
\* with an empty content), twitter:title and title
TitleElements ==
  LET Meta(at) == El("meta", at, <<>>, TRUE)
  IN  { El("title", NoAttrs, <<"T">>, FALSE),
        Meta([property |-> <<"o","g",":","t","i","t","l","e">>, content |-> <<>>]),
        Meta([property |-> <<"o","g",":","t","i","t","l","e">>, content |-> <<"o">>]),
        Meta([name |-> <<"t","w","i","t","t","e","r",":","t","i","t","l","e">>, content |-> <<"t">>]),
        Meta([name |-> <<"t","i","t","l","e">>, content |-> <<"m">>]) }

\* the state of an extract_metadata call on such a document on entry
InitTitle ==
  /\ \E k \in (MaxNodes - 1)..MaxNodes : \E el \in [Elems -> TitleElements] :
       /\ opts = Some(ParseHead(k, el, None))
       /\ dom = ParseHead(k, el, None)
  /\ document = DOC
  /\ pc = "meta"
  /\ sel = 0
  /\ queue = <<>>
  /\ last = NoLast
  /\ out = EmptyMap
  /\ link_open_count = 0
  /\ res = <<>>

NextMeta ==
  \/ MetaFixed
  \/ MetaMerge
  \/ MetaBackfill

SpecMeta == InitMeta /\ [][NextMeta]_vars

SpecTitle == InitTitle /\ [][NextMeta]_vars

(***************************************************************************)
(* extract_attributes and _extract_attributes (lines 732-815).  `opts` is  *)
(* the parsed html and the requested selectors, `sel` the number of        *)
(* requests served, `res` the results.                                     *)
(***************************************************************************)
\* the characters of the attribute names the documents use
ATTRIBUTE_NAMES ==
  ("src" :> <<"s","r","c">>) @@ ("data-src" :> <<"d","a","t","a","-","s","r","c">>)
    @@ ("data-data-src" :> <<"d","a","t","a","-","d","a","t","a","-","s","r","c">>)

\* Attributes::get(name), the name being a string
attributes_get(attrs, name) ==
  LET ks == {k \in DOMAIN attrs \cap DOMAIN ATTRIBUTE_NAMES : ATTRIBUTE_NAMES[k] = name}
  IN  IF ks = {} THEN None ELSE Some(attrs[CHOOSE k \in ks : TRUE])

\* a lookup that tries the data- name whatever the requested name is
element_value_always_prefixed(attrs, attribute) ==
  IF attributes_get(attrs, attribute).some
  THEN attributes_get(attrs, attribute)
  ELSE attributes_get(attrs, <<"d","a","t","a","-">> \o attribute)

\* lines 774-791: what one element adds to `values`
element_value(attrs, attribute) ==
  IF attributes_get(attrs, attribute).some
  THEN attributes_get(attrs, attribute)
  ELSE IF ~starts_with(attribute, <<"d","a","t","a","-">>)
  THEN LET data_attr == <<"d","a","t","a","-">> \o attribute
       IN  attributes_get(attrs, data_attr)
  ELSE None

\* lines 774-792: the loop over the elements
RECURSIVE collect_values(_, _, _)
collect_values(d, elements, attribute) ==
  IF elements = <<>> THEN <<>>
  ELSE LET v == element_value(d.attrs[Head(elements)], attribute)
       IN  (IF v.some THEN <<v.v>> ELSE <<>>)
             \o collect_values(d, Tail(elements), attribute)

AttributeSelector(s, a) == [selector |-> s, attribute |-> a]

\* lines 761-798: one iteration of the loop over options.selectors
AttrsSelector ==
  /\ pc = "attrs"
  /\ sel < Len(opts.selectors)
  /\ LET selector_config == opts.selectors[sel + 1]
         elements == IF select_ok(selector_config.selector)
                     THEN select(dom, document, selector_config.selector)
                     ELSE <<>>
         values == collect_values(dom, elements, selector_config.attribute)
     IN  res' = Append(res, [selector  |-> selector_config.selector,
                             attribute |-> selector_config.attribute,
                             values    |-> values])
  /\ sel' = sel + 1
  /\ UNCHANGED <<opts, pc, dom, document, queue, last, out, link_open_count>>

\* line 800: Ok(results)
AttrsReturn ==
  /\ pc = "attrs"
  /\ sel = Len(opts.selectors)
  /\ pc' = "attrs_done"
  /\ UNCHANGED <<opts, dom, document, sel, queue, last, out, link_open_count, res>>

\* elements with the attribute, its data- variant, both, or neither
AttrElements ==
  { El("img", [src |-> <<"a">>], <<>>, TRUE),
    El("img", ("data-src" :> <<"b">>), <<>>, TRUE),
    El("img", ("src" :> <<"a">>) @@ ("data-src" :> <<"b">>), <<>>, TRUE),
    El("img", ("data-data-src" :> <<"c">>), <<>>, TRUE),
    El("div", NoAttrs, <<>>, FALSE) }

\* the requests of the calls
AttrRequests ==
  { << AttributeSelector(TagSel("img"), <<"s","r","c">>) >>,
    << AttributeSelector(TagSel("img"), <<"d","a","t","a","-","s","r","c">>),
       AttributeSelector(TagSel("div"), <<"s","r","c">>) >>,
    << AttributeSelector(BadSel, <<"s","r","c">>),
       AttributeSelector(TagSel("img"), <<"s","r","c">>) >>,
    << AttributeSelector(TagSel("div"), <<"d","a","t","a","-","s","r","c">>),
       AttributeSelector(TagSel("img"), <<"d","a","t","a","-","s","r","c">>),
       AttributeSelector(TagSel("img"), <<"s","r","c">>) >>,
    << >> }

InitAttrs ==
  /\ \E par \in Shapes : \E el \in [Elems -> AttrElements] :
       \E selectors \in AttrRequests :
          /\ WellFormed(par, el)
          /\ opts = [html |-> Parse(par, el), selectors |-> selectors]
          /\ dom = Parse(par, el)
  /\ document = DOC /\ pc = "attrs" /\ sel = 0 /\ queue = <<>> /\ last = NoLast
  /\ out = <<>> /\ link_open_count = 0 /\ res = <<>>

NextAttrs ==
  \/ AttrsSelector
  \/ AttrsReturn

SpecAttrs == InitAttrs /\ [][NextAttrs]_vars

(***************************************************************************)
(* extract_images and _extract_images (lines 819-999).  `opts` is the      *)
(* parsed html and the page URL, `out` the set `images`, `res` the         *)
(* returned list.  The documents of the model carry no style attribute, so *)
(* that the loop of lines 951-967 finds no element.                        *)
(***************************************************************************)
\* lines 80-96: _extract_base_href_from_document(document, url)
extract_base_href(d, url) ==
  LET base == first_attr(d, DOC, AttrHas("base", "href"), "href")
  IN  IF base.some /\ url_join(url, base.v).ok
      THEN url_join(url, base.v).v
      ELSE url

\* a closure that joins every relative reference against the base href
resolve_image_url_base_only(base_url, base_href_url, src) ==
  IF starts_with(src, <<"d","a","t","a",":">>) \/ starts_with(src, <<"b","l","o","b",":">>)
  THEN [ok |-> TRUE, v |-> src]
  ELSE IF starts_with(src, <<"h","t","t","p",":","/","/">>) \/ starts_with(src, <<"h","t","t","p","s",":","/","/">>)
  THEN [ok |-> TRUE, v |-> src]
  ELSE url_join(base_href_url, src)

\* lines 829-842: the closure resolve_image_url
resolve_image_url(base_url, base_href_url, src) ==
  IF starts_with(src, <<"d","a","t","a",":">>) \/ starts_with(src, <<"b","l","o","b",":">>)
  THEN [ok |-> TRUE, v |-> src]
  ELSE IF starts_with(src, <<"h","t","t","p",":","/","/">>) \/ starts_with(src, <<"h","t","t","p","s",":","/","/">>)
  THEN [ok |-> TRUE, v |-> src]
  ELSE IF starts_with(src, <<"/","/">>)
  THEN url_join(base_url, src)
  ELSE url_join(base_href_url, src)

\* lines 845-949: the strings the loops hand to resolve_image_url
found_urls(d) ==
  LET Nodes(s) == Range(select(d, DOC, s))
      Value(ns, a) == {d.attrs[n][a] : n \in {m \in ns : HasAttr(d, m, a)}}
      FirstTokens(srcset) ==
        LET parts == split(srcset, ",")
        IN  {Head(split_whitespace(parts[i])) :
               i \in {j \in DOMAIN parts : split_whitespace(parts[j]) # <<>>}}
      SrcsetUrls(ns) == UNION {FirstTokens(v) : v \in Value(ns, "srcset")}
      img_elements == Nodes(TagSel("img"))
      source_elements ==
        {n \in Nodes(TagSel("source")) :
           \E p \in Nodes(TagSel("picture")) : n \in Subtree(d, p) \ {p}}
      meta_selectors ==
        << AttrEq("meta", "property", <<"o","g",":","i","m","a","g","e">>),
           AttrEq("meta", "property", <<"o","g",":","i","m","a","g","e",":","u","r","l">>),
           AttrEq("meta", "property", <<"o","g",":","i","m","a","g","e",":","s","e","c","u","r","e","_","u","r","l">>),
           AttrEq("meta", "name", <<"t","w","i","t","t","e","r",":","i","m","a","g","e">>),
           AttrEq("meta", "name", <<"t","w","i","t","t","e","r",":","i","m","a","g","e",":","s","r","c">>),
           AttrEq("meta", "itemprop", <<"i","m","a","g","e">>) >>
      link_selectors ==
        << AttrSub("link", "rel", <<"i","c","o","n">>),
           AttrSub("link", "rel", <<"a","p","p","l","e","-","t","o","u","c","h","-","i","c","o","n">>),
           AttrSub("link", "rel", <<"i","m","a","g","e","_","s","r","c">>) >>
  IN  Value(img_elements, "src") \cup Value(img_elements, "data-src")
        \cup SrcsetUrls(img_elements) \cup SrcsetUrls(source_elements)
        \cup UNION {Value(Nodes(meta_selectors[i]), "content") : i \in DOMAIN meta_selectors}
        \cup UNION {Value(Nodes(link_selectors[i]), "href") : i \in DOMAIN link_selectors}
        \cup Value(Nodes(AttrHas("video", "poster")), "poster")

\* lines 969-976: the three filters
filter_images(images) ==
  {url \in images :
     /\ ~starts_with(to_lowercase(url), <<"j","a","v","a","s","c","r","i","p","t",":">>)
     /\ url # <<>>
     /\ \/ starts_with(url, <<"d","a","t","a",":">>) \/ starts_with(url, <<"b","l","o","b",":">>)
        \/ url_parse(url).ok}

\* lines 823-967: parse the page URL, resolve the base href and fill `images`
ImagesCollect ==
  /\ pc = "images"
  /\ IF url_parse(opts.base_url).ok
     THEN LET base_url == url_parse(opts.base_url).v
              base_href_url == extract_base_href(dom, base_url)
              resolved == {resolve_image_url(base_url, base_href_url, u) :
                             u \in found_urls(dom)}
          IN  /\ out' = {r.v : r \in {x \in resolved : x.ok}}
              /\ pc' = "images_filter"
     ELSE /\ out' = {}
          /\ pc' = "err"
  /\ UNCHANGED <<opts, dom, document, sel, queue, last, link_open_count, res>>

\* lines 969-978: filter the set and collect it, in the order the HashSet
\* iterates, which is any
ImagesReturn ==
  /\ pc = "images_filter"
  /\ LET filtered == filter_images(out)
     IN  res' \in {s \in [1..Cardinality(filtered) -> filtered] : Range(s) = filtered}
  /\ pc' = "images_done"
  /\ UNCHANGED <<opts, dom, document, sel, queue, last, out, link_open_count>>

\* img, source, meta and link elements with data:, http(s),
\* protocol-relative, relative and javascript: references, some that do not
\* parse, and a base element whose scheme is not the page's
ImageElements ==
  { El("img", [src |-> <<"d","a","t","a",":","x">>], <<>>, TRUE),
    El("img", [src |-> <<"h","t","t","p",":","/","/">>], <<>>, TRUE),
    El("img", [src |-> <<"J","a","v","a","S","c","r","i","p","t",":","x">>], <<>>, TRUE),
    El("img", ("data-src" :> <<"/","/","c",".","i","o","/","i">>) @@ ("srcset" :> <<"i",".","p","n","g"," ","2","x",","," ",","," ","/","/","c",".","i","o","/","i">>), <<>>, TRUE),
    El("meta", [name |-> <<"t","w","i","t","t","e","r",":","i","m","a","g","e">>, content |-> <<"h","t","t","p",":","/","/","a",".","i","o","/","p">>], <<>>, TRUE),
    El("link", [rel |-> <<"s","h","o","r","t","c","u","t"," ","i","c","o","n">>, href |-> <<"/","/">>], <<>>, TRUE),
    El("base", [href |-> <<"h","t","t","p",":","/","/","b",".","i","o","/","d","/">>], <<>>, TRUE),
    El("picture", NoAttrs, <<>>, FALSE),
    El("source", [srcset |-> <<"/","/","c",".","i","o","/","s"," ","1","x">>], <<>>, TRUE) }

InitImages ==
  /\ \/ \E par \in Shapes : \E el \in [Elems -> ImageElements] :
          /\ WellFormed(par, el)
          /\ opts = [html |-> Parse(par, el), base_url |-> BASE_URL]
          /\ dom = Parse(par, el)
     \/ /\ opts = [html |-> Parse([i \in Elems |-> 0],
                                  [i \in Elems |-> El("img", [src |-> <<"i",".","p","n","g">>], <<>>, TRUE)]),
                   base_url |-> <<"e",".","i","o">>]
        /\ dom = opts.html
  /\ document = DOC /\ pc = "images" /\ sel = 0 /\ queue = <<>> /\ last = NoLast
  /\ out = {} /\ link_open_count = 0 /\ res = <<>>

NextImages ==
  \/ ImagesCollect
  \/ ImagesReturn

SpecImages == InitImages /\ [][NextImages]_vars

(***************************************************************************)
(* Properties of transform_html.                                           *)
(***************************************************************************)
\* the elements of the input document
InputElements == {n \in Subtree(opts.html, DOC) : IsElement(opts.html, n)}

\* n is, or lies inside, a head, meta, noscript, style or script element of
\* the input
InsideStripped(n) ==
  \E a \in InputElements :
     /\ opts.html.tag[a] \in Range(STRIP_TAGS)
     /\ n \in Subtree(opts.html, a)

\* the noise-selector stage is over
AfterNoise == pc \in {"srcset", "absolutize", "done"}

\* the match the next iteration of the noise loop processes
NoiseTagAt(tag) == pc = "noise" /\ queue # <<>> /\ tag = Head(queue)

\* C1: with only_main_content and no include_tags, exclude_tags or
\* signatures, every element that is attribution-bearing in the input and is
\* no head, meta, noscript, style or script element is still attached after
\* the noise-selector stage (so are its attribution-bearing descendants,
\* being such elements themselves).
C1_AttributionSurvivesNoise ==
  ( /\ AfterNoise
    /\ opts.only_main_content
    /\ opts.include_tags = <<>> /\ opts.exclude_tags = <<>>
    /\ ~opts.omce_signatures.some )
  => \A e \in InputElements :
        ( /\ contains_attribution(opts.html, e)
          /\ opts.html.tag[e] \notin Range(STRIP_TAGS) )
        => e \in Output

\* the elements strictly below node in d
Below(d, node) == Subtree(d, node) \ {node}

\* the parent of n in d, n having one
ParentOf(d, n) == CHOOSE p \in DOMAIN d.children : n \in Range(d.children[p])

C3_NothingRemovedAnyOptions ==
  (pc = "done" /\ ~opts.only_main_content)
  => \A e \in InputElements : ~InsideStripped(e) => e \in Output

\* C3 amended: the same for the calls whose include_tags and exclude_tags
\* are empty.
C3_NothingRemovedNoTags ==
  ( /\ pc = "done"
    /\ ~opts.only_main_content
    /\ opts.include_tags = <<>> /\ opts.exclude_tags = <<>> )
  => \A e \in InputElements : ~InsideStripped(e) => e \in Output

\* a finished call without main-content filtering and tag lists that kept a
\* nav the signatures name and dropped a noscript element with its content
C3_Witness ==
  /\ pc = "done"
  /\ ~opts.only_main_content
  /\ opts.include_tags = <<>> /\ opts.exclude_tags = <<>>
  /\ opts.omce_signatures.some
  /\ \E e \in Elems : dom.tag[e] = "nav" /\ e \in Output /\ dom.children[e] = <<>>
  /\ \E e \in Elems : InsideStripped(e) /\ dom.tag[e] # "noscript" /\ e \notin Output

\* C4: a match of the noise loop that holds no force-include match and is
\* not attribution-bearing when it is processed is detached, it and its
\* whole subtree being out of the output from then on (no step of the
\* pipeline after the include filter attaches a node again).
C4_PlainNoiseDetached ==
  [][ /\ \A tag \in AllNodes :
           ( /\ NoiseTagAt(tag)
             /\ ~force_included(dom, tag)
             /\ ~contains_attribution(dom, tag) )
           => Subtree(dom, tag) \cap Attached(dom', document') = {}
      /\ pc \notin {"start", "include"}
         => Attached(dom', document') \subseteq Attached(dom, document)
    ]_vars

\* a finished call whose noise loop detached a match with elements below it
\* that was attached until then
C4_Witness ==
  /\ pc = "done"
  /\ \E e \in Elems :
       /\ \E i \in DOMAIN EXCLUDE_NON_MAIN_TAGS : Matches(dom, e, EXCLUDE_NON_MAIN_TAGS[i])
       /\ ~force_included(dom, e) /\ ~contains_attribution(dom, e)
       /\ Below(dom, e) # {}
       /\ ParentOf(opts.html, e) = BODY
       /\ e \notin Output

\* C5 as stated: after the srcset stage the src of every img[srcset] with a
\* candidate is the URL of a candidate no other candidate's descriptor value
\* exceeds, the candidates being the srcset entries whose descriptor parses
\* and, when all of them are density candidates and the input has a src,
\* that src as 1x.
C5_SrcIsLargestCandidate ==
  pc = "absolutize"
  => \A n \in Output :
       (dom.tag[n] = "img" /\ HasAttr(opts.html, n, "srcset"))
       => LET sizes == srcset_sizes(opts.html.attrs[n])
          IN  sizes # <<>>
              => \E i \in DOMAIN sizes :
                    /\ HasAttr(dom, n, "src")
                    /\ dom.attrs[n]["src"] = sizes[i].url
                    /\ \A j \in DOMAIN sizes : ~f64_lt(sizes[i].size, sizes[j].size)

\* the contents of the meta elements below root that have a content and the
\* key k, in document order
Contents(root, k) ==
  LET all == PreOrderSeq(dom.children, <<root>>)
      F[i \in 0..Len(all)] ==
        IF i = 0 THEN <<>>
        ELSE IF /\ dom.tag[all[i]] = "meta"
                /\ HasAttr(dom, all[i], "content")
                /\ meta_name(dom.attrs[all[i]]) = Some(k)
        THEN Append(F[i - 1], dom.attrs[all[i]]["content"]) ELSE F[i - 1]
  IN  F[Len(all)]

\* the keys of the meta elements of the document
MetaKeys ==
  {meta_name(dom.attrs[n]).v : n \in {m \in Subtree(dom, DOC) : dom.tag[m] = "meta"}}

\* the contents of the meta[property="og:locale:alternate"] elements below
\* <head> that have one
LocaleAlternates ==
  LET all == PreOrderSeq(dom.children, <<HEAD>>)
      F[i \in 0..Len(all)] ==
        IF i = 0 THEN <<>>
        ELSE IF Matches(dom, all[i], AttrEq("meta", "property", <<"o","g",":","l","o","c","a","l","e",":","a","l","t","e","r","n","a","t","e">>))
                /\ HasAttr(dom, all[i], "content")
        THEN Append(F[i - 1], dom.attrs[all[i]]["content"]) ELSE F[i - 1]
  IN  F[Len(all)]

\* what the returned map holds for description and og:locale:alternate:
\* two description contents a, b give the String "a, b", and the contents
\* of the og:locale:alternate elements begin the Array ogLocaleAlternate
DescriptionJoinedLocalesArrayed ==
  /\ Len(Contents(DOC, <<"d","e","s","c","r","i","p","t","i","o","n">>)) = 2
     => /\ <<"d","e","s","c","r","i","p","t","i","o","n">> \in DOMAIN out
        /\ out[<<"d","e","s","c","r","i","p","t","i","o","n">>] =
             String(Contents(DOC, <<"d","e","s","c","r","i","p","t","i","o","n">>)[1] \o <<",", " ">>
                    \o Contents(DOC, <<"d","e","s","c","r","i","p","t","i","o","n">>)[2])
  /\ LocaleAlternates # <<>>
     => /\ <<"o","g","L","o","c","a","l","e","A","l","t","e","r","n","a","t","e">> \in DOMAIN out
        /\ out[<<"o","g","L","o","c","a","l","e","A","l","t","e","r","n","a","t","e">>].t = "Array"
        /\ Len(out[<<"o","g","L","o","c","a","l","e","A","l","t","e","r","n","a","t","e">>].v) >= Len(LocaleAlternates)
        /\ SubSeq(out[<<"o","g","L","o","c","a","l","e","A","l","t","e","r","n","a","t","e">>].v, 1, Len(LocaleAlternates)) = LocaleAlternates

AnchorsInOrder ==
  LET all == PreOrderSeq(dom.children, <<DOC>>)
      F[i \in 0..Len(all)] ==
        IF i = 0 THEN <<>>
        ELSE IF dom.tag[all[i]] = "a" /\ HasAttr(dom, all[i], "href")
        THEN Append(F[i - 1], all[i]) ELSE F[i - 1]
  IN  F[Len(all)]

\* s with a slash put in after its first n characters
WithSlashAfter(s, n) == SubSeq(s, 1, n) \o <<"/">> \o SubSeq(s, n + 1, Len(s))

HasPrefix(s, p) == Len(s) >= Len(p) /\ \A i \in DOMAIN p : s[i] = p[i]

\* C7: extract_links returns one entry per a[href] element, in document
\* order, duplicates included; the entry is the href, with the missing slash
\* put in after "http:/" or "https:/" when the href starts with that and not
\* with the two-slash form; a None input returns the empty list.
C7_LinksInOrderRepaired ==
  pc = "links_done"
  => IF ~opts.some THEN out = <<>>
     ELSE /\ Len(out) = Len(AnchorsInOrder)
          /\ \A k \in DOMAIN out :
               LET href == dom.attrs[AnchorsInOrder[k]]["href"]
               IN  out[k] =
                     IF HasPrefix(href, <<"h","t","t","p",":","/">>) /\ ~HasPrefix(href, <<"h","t","t","p",":","/","/">>)
                     THEN WithSlashAfter(href, 6)
                     ELSE IF HasPrefix(href, <<"h","t","t","p","s",":","/">>) /\ ~HasPrefix(href, <<"h","t","t","p","s",":","/","/">>)
                     THEN WithSlashAfter(href, 7)
                     ELSE href

\* a returned list with a repaired link, an untouched two-slash link and the
\* same link twice
C7_Witness ==
  /\ pc = "links_done"
  /\ opts.some
  /\ \E j, k \in DOMAIN out :
        /\ j < k
        /\ out[j] = out[k]
        /\ out[j] = <<"h","t","t","p",":","/","/","e",".","i","o">>
        /\ dom.attrs[AnchorsInOrder[j]]["href"] = <<"h","t","t","p",":","/","e",".","i","o">>
        /\ dom.attrs[AnchorsInOrder[k]]["href"] = <<"h","t","t","p",":","/","/","e",".","i","o">>

\* the bracket depth after the characters of s: up by one on "[", down by
\* one, not below zero, on "]"
RECURSIVE Depth(_)
Depth(s) ==
  IF s = <<>> THEN 0
  ELSE LET before == Depth(SubSeq(s, 1, Len(s) - 1))
           ch == s[Len(s)]
       IN  CASE ch = "[" -> before + 1
             [] ch = "]" -> IF before > 0 THEN before - 1 ELSE 0
             [] OTHER    -> before

\* s with a backslash put before every newline at which the depth is above
\* zero
RECURSIVE Escaped(_, _)
Escaped(s, k) ==
  IF k = 0 THEN <<>>
  ELSE Escaped(s, k - 1) \o
       (IF s[k] = "\n" /\ Depth(SubSeq(s, 1, k)) > 0 THEN <<"\\", "\n">> ELSE <<s[k]>>)

\* C8: at every point of the first pass the counter is the bracket depth of
\* the characters read and the text written is those characters in order,
\* with a backslash before exactly the newlines read at a depth above zero.
C8_NewlineEscapedInsideBrackets ==
  pc = "md_pass1"
  => LET k == Len(opts) - Len(queue)
     IN  /\ queue = SubSeq(opts, k + 1, Len(opts))
         /\ link_open_count = Depth(SubSeq(opts, 1, k))
         /\ link_open_count >= 0
         /\ out = Escaped(opts, k)

\* a finished first pass that read a "]" at depth zero and later escaped a
\* newline
C8_Witness ==
  /\ pc = "md_pass1"
  /\ queue = <<>>
  /\ \E k, m \in DOMAIN opts :
       /\ k < m
       /\ opts[k] = "]" /\ Depth(SubSeq(opts, 1, k - 1)) = 0
       /\ opts[m] = "\n" /\ Depth(SubSeq(opts, 1, m)) = 1
  /\ Len(out) > Len(opts)

\* a skip link closed by ")" starts at byte i (from 1) of b
SkipLinkAt(b, i) ==
  LET n == Len(LABEL)
  IN  /\ i + n + 3 <= Len(b)
      /\ b[i] = "["
      /\ to_lowercase(SubSeq(b, i + 1, i + n)) = to_lowercase(LABEL)
      /\ SubSeq(b, i + n + 1, i + n + 3) = <<"]","(","#">>
      /\ \E j \in (i + n + 4)..Len(b) : b[j] = ")"

\* the byte that closes the skip link that starts at byte i of b
SkipLinkClose(b, i) ==
  CHOOSE j \in (i + Len(LABEL) + 4)..Len(b) :
    b[j] = ")" /\ \A k \in (i + Len(LABEL) + 4)..(j - 1) : b[k] # ")"

\* the skip links of b that start outside every removed one before them
RemovedStarts(b) ==
  LET R[i \in 0..Len(b)] ==
        IF i = 0 THEN {}
        ELSE IF SkipLinkAt(b, i) /\ \A k \in R[i - 1] : SkipLinkClose(b, k) < i
        THEN R[i - 1] \cup {i} ELSE R[i - 1]
  IN  R[Len(b)]

\* b without the bytes of the removed skip links
WithoutSkipLinks(b) ==
  LET gone == UNION {k..SkipLinkClose(b, k) : k \in RemovedStarts(b)}
      F[i \in 0..Len(b)] ==
        IF i = 0 THEN <<>>
        ELSE IF i \in gone THEN F[i - 1] ELSE Append(F[i - 1], b[i])
  IN  F[Len(b)]

\* C9 as stated: the returned text holds no skip link closed by ")", and is
\* the text of the first pass without the removed spans.
C9_NoSkipLinkLeft ==
  pc = "md_done"
  => /\ \A i \in DOMAIN res : ~SkipLinkAt(res, i)
     /\ res = WithoutSkipLinks(as_bytes(out))

\* C9 amended: the returned text is the text of the first pass without its
\* skip links closed by ")", taken from left to right, one that starts
\* inside a removed one not counting; every other byte stays, in order.
C9_SkipLinksOfInputRemoved ==
  pc = "md_done" => res = WithoutSkipLinks(as_bytes(out))

\* a returned text that lost a skip link and, made of what stood around it,
\* holds one
C9_Witness ==
  /\ pc = "md_done"
  /\ RemovedStarts(as_bytes(out)) # {}
  /\ \E i \in DOMAIN res : SkipLinkAt(res, i)

\* C10 as stated: a call with a selector that does not parse in include_tags
\* or exclude_tags does not return cleaned markup.
C10_BadSelectorIsFatal ==
  pc = "done"
  => /\ \A i \in DOMAIN opts.include_tags : select_ok(opts.include_tags[i])
     /\ \A i \in DOMAIN opts.exclude_tags : select_ok(opts.exclude_tags[i])

\* the elements of the input that some selector of include_tags matches
IncludeMatched ==
  {n \in InputElements :
     \E i \in DOMAIN opts.include_tags : Matches(opts.html, n, opts.include_tags[i])}

\* the first selector of include_tags that matches n
FirstSelector(n) ==
  CHOOSE i \in DOMAIN opts.include_tags :
    /\ Matches(opts.html, n, opts.include_tags[i])
    /\ \A j \in 1..(i - 1) : ~Matches(opts.html, n, opts.include_tags[j])

\* the place of n in the document order of the input
DocumentOrder(n) ==
  LET o == inclusive_descendants(opts.html, DOC)
  IN  CHOOSE i \in DOMAIN o : o[i] = n

\* how often n occurs as a child in the tree of d below root
Occurrences(d, root, n) ==
  Cardinality({pi \in UNION {{<<p, i>> : i \in DOMAIN d.children[p]} :
                               p \in Subtree(d, root)} :
                 d.children[pi[1]][pi[2]] = n})

\* C16: with include_tags empty the include stage changes nothing; else, when
\* it succeeds, the tree is the fresh document with its one container, whose
\* children are matched nodes ordered by their first matching selector and
\* then by document order; every matched node occurs exactly once in the new
\* tree and is not reachable from the original one; and every node below the
\* container is a match or lies inside a match in the input.
C16_IncludeMovesMatches ==
  [][ pc = "include" =>
        IF opts.include_tags = <<>>
        THEN dom' = dom /\ document' = document /\ pc' = "strip"
        ELSE pc' = "strip" =>
             LET kids == dom'.children[NDIV]
             IN  /\ document' = NDOC
                 /\ dom'.children[NDOC] = <<NHTML>>
                 /\ dom'.children[NHTML] = <<NHEAD, NBODY>>
                 /\ dom'.children[NBODY] = <<NDIV>>
                 /\ \A n \in IncludeMatched :
                      /\ Occurrences(dom', NDOC, n) = 1
                      /\ n \notin Subtree(dom', DOC)
                 /\ \A n \in Below(dom', NDIV) :
                      \E m \in IncludeMatched : n \in Subtree(opts.html, m)
                 /\ \A i \in DOMAIN kids : kids[i] \in IncludeMatched
                 /\ \A i, j \in DOMAIN kids :
                      i < j =>
                        \/ FirstSelector(kids[i]) < FirstSelector(kids[j])
                        \/ /\ FirstSelector(kids[i]) = FirstSelector(kids[j])
                           /\ DocumentOrder(kids[i]) < DocumentOrder(kids[j])
    ]_vars

\* the filter has run on a document with a match nested inside a match of
\* the same selector, which several selectors of include_tags match, and
\* with a match of another selector
C16_Witness ==
  /\ pc = "strip" /\ document = NDOC
  /\ Len(dom.children[NDIV]) = MaxNodes
  /\ \E n, m \in IncludeMatched :
       /\ n # m /\ n \in Subtree(opts.html, m)
       /\ opts.html.tag[n] = opts.html.tag[m]
       /\ Cardinality({i \in DOMAIN opts.include_tags :
                         Matches(opts.html, n, opts.include_tags[i])}) > 1
  /\ \E n \in IncludeMatched : opts.html.tag[n] = "nav"

\* n matches a selector of FORCE_INCLUDE_MAIN_TAGS
ForceIncludeMatch(d, n) ==
  \E i \in DOMAIN FORCE_INCLUDE_MAIN_TAGS : Matches(d, n, FORCE_INCLUDE_MAIN_TAGS[i])

\* the attached elements that are a force-include match or have one below
ForceIncludeChain(d, root) ==
  {a \in Attached(d, root) :
     \E f \in Subtree(d, a) : IsElement(d, f) /\ ForceIncludeMatch(d, f)}

\* C17: in every step of the noise stage the attached force-include matches
\* and their ancestors stay attached with the same elements of the chain
\* below them, and when the match the step processes is one of them, or holds
\* one of them, the step skips it and changes nothing.
C17_ForceIncludeProtected ==
  [][ pc = "noise" =>
        LET chain == ForceIncludeChain(dom, document)
        IN  /\ chain \subseteq ForceIncludeChain(dom', document')
            /\ (queue # <<>> /\ Subtree(dom, Head(queue)) \cap chain # {})
                 => /\ dom' = dom
                    /\ last'.what = "forced"
    ]_vars

\* the noise loop has just skipped a deny-list match that is
\* attribution-bearing and holds a force-include match below it
C17_Witness ==
  /\ pc = "noise" /\ last.what = "forced"
  /\ \E f \in Elems :
       /\ last.tag # f /\ f \in Subtree(dom, last.tag)
       /\ ForceIncludeMatch(dom, f)
       /\ \E i \in DOMAIN EXCLUDE_NON_MAIN_TAGS :
            Matches(dom, last.tag, EXCLUDE_NON_MAIN_TAGS[i])
       /\ contains_attribution(dom, last.tag)
       /\ last.tag \in Output

\* the attached elements of d named head, meta, noscript, style or script
Strippable(d, root) ==
  {n \in Attached(d, root) : d.tag[n] \in {"head", "meta", "noscript", "style", "script"}}

\* C18: once the strip loops are over the tree holds no head, meta,
\* noscript, style or script element at any depth, up to the end of a call
\* that succeeds; and every iteration of a strip loop detaches one such
\* element that was attached, so that fewer of them are left.
C18_StripRemovesAll ==
  [][ /\ pc' \in {"omce", "exclude", "noise", "srcset", "absolutize", "done"}
         => Strippable(dom', document') = {}
      /\ (pc = "strip" /\ pc' = "strip")
         => \E x \in Strippable(dom, document) :
              /\ dom' = detach(dom, x)
              /\ Strippable(dom', document') \subseteq Strippable(dom, document) \ {x}
    ]_vars

\* a finished call whose include filter kept a div that held a noscript
\* nested in a noscript
C18_Witness ==
  /\ pc = "done" /\ document = NDOC
  /\ \E e, m, n \in Elems :
       /\ opts.html.tag[e] = "div" /\ e \in IncludeMatched /\ e \in Output
       /\ opts.html.tag[m] = "noscript" /\ opts.html.tag[n] = "noscript"
       /\ m \in Below(opts.html, e) /\ n \in Below(opts.html, m)
       /\ m \notin Output /\ n \notin Output

\* n is some node's child in d
HasParent(d, n) == \E p \in DOMAIN d.children : n \in Range(d.children[p])

\* the attached elements with a text that is not blank whose fingerprint
\* under the mode of some signature is that signature
SignatureNamed ==
  {n \in Attached(dom, document) :
     /\ ~trim_is_empty(text_contents(dom, n))
     /\ \E i \in DOMAIN opts.omce_signatures.v :
          get_node_signature(dom, n, opts.omce_signatures.v[i].mode)
            = opts.omce_signatures.v[i]}

\* C19: the OMCE step changes nothing unless only_main_content is set and
\* signatures are given; when it runs, the nodes it unlinks are exactly the
\* attached elements with non-blank text whose fingerprint, computed under
\* some mode on the tree as it is before the step, is a signature of that
\* mode, whichever way the modes are ordered; every other link is kept.
C19_OmceDetachesExactlyNamed ==
  [][ pc = "omce" =>
        IF opts.only_main_content /\ opts.omce_signatures.some
        THEN /\ {n \in AllNodes : HasParent(dom, n) /\ ~HasParent(dom', n)}
                  = SignatureNamed
             /\ \A p \in DOMAIN dom.children :
                  dom'.children[p] =
                    SelectSeq(dom.children[p], LAMBDA c : c \notin SignatureNamed)
        ELSE dom' = dom
    ]_vars

\* the filter has run with signatures of two modes and has unlinked a div
\* and the nav below it, the div's signature covering the nav's text
C19_Witness ==
  /\ pc = "exclude"
  /\ opts.only_main_content /\ opts.omce_signatures.some
  /\ Cardinality({opts.omce_signatures.v[i].mode : i \in DOMAIN opts.omce_signatures.v}) > 1
  /\ \E e, n \in Elems :
       /\ opts.html.tag[e] = "div" /\ opts.html.tag[n] = "nav"
       /\ n \in Below(opts.html, e)
       /\ ~HasParent(dom, e) /\ ~HasParent(dom, n)

\* C20 as stated: in the input tree every element above an
\* attribution-bearing element (by text, by selector or by its own class) is
\* attribution-bearing too.
C20_AttributionUpwardClosed ==
  pc = "start" =>
    \A e \in InputElements :
       contains_attribution(dom, e)
         => \A a \in InputElements :
              e \in Subtree(dom, a) => contains_attribution(dom, a)

\* C21 as stated: a match the noise loop prunes for its attribution is
\* attribution-bearing after the pruning too, and an element the loop has
\* pruned stays attribution-bearing in every later step of the noise stage.
C21_PrunedStaysAttribution ==
  [][ pc = "noise" =>
        /\ \A tag \in AllNodes :
             ( /\ NoiseTagAt(tag)
               /\ ~force_included(dom, tag)
               /\ contains_attribution(dom, tag) )
             => contains_attribution(dom', tag)
        /\ (last.what = "pruned" /\ contains_attribution(dom, last.tag))
             => contains_attribution(dom', last.tag)
    ]_vars

\* an attached element of d matches selector s
Remains(d, root, s) == \E e \in Attached(d, root) : Matches(d, e, s)

\* C22 as stated: after the exclude stage no attached element matches a
\* selector of exclude_tags that parses.
C22_NoExcludedRemains ==
  pc \in {"noise", "srcset", "absolutize", "done"}
    => \A i \in DOMAIN opts.exclude_tags :
         opts.exclude_tags[i].t # "bad"
           => ~Remains(dom, document, opts.exclude_tags[i])

\* C22 amended: every iteration of the exclude stage detaches one attached
\* element that matches a selector of exclude_tags, so that fewer elements
\* are attached; when the stage goes on to the next selector no attached
\* element matches the one it leaves; and after the stage no attached
\* element matches the last selector, nor a selector that tests only the
\* element's own name and attributes.
C22_EachLoopRemovesItsMatches ==
  [][ pc = "exclude" =>
        /\ pc' = "exclude"
             => \E x \in Attached(dom, document) :
                  /\ Matches(dom, x, opts.exclude_tags[sel'])
                  /\ dom' = detach(dom, x)
                  /\ Attached(dom', document') \subseteq Attached(dom, document) \ {x}
        /\ (sel' # sel /\ sel \in DOMAIN opts.exclude_tags)
             => ~Remains(dom, document, opts.exclude_tags[sel])
        /\ pc' # "exclude"
             => \A i \in DOMAIN opts.exclude_tags :
                  ( /\ opts.exclude_tags[i].t # "bad"
                    /\ \/ opts.exclude_tags[i].t # "empty"
                       \/ i = Len(opts.exclude_tags) )
                  => ~Remains(dom', document', opts.exclude_tags[i])
    ]_vars

\* a finished stage that found no empty div, then detached two nav
\* elements, one of them the only child of a div that is still attached
C22_Witness ==
  /\ pc = "srcset"
  /\ opts.exclude_tags = <<EmptySel("div"), TagSel("nav")>>
  /\ Cardinality({e \in InputElements : opts.html.tag[e] = "nav" /\ e \notin Output}) = 2
  /\ \E e \in Output : /\ dom.tag[e] = "div"
                       /\ opts.html.children[e] # <<>>
                       /\ dom.children[e] = <<>>

\* C23 as stated: after the srcset stage every img[srcset] whose src was
\* not empty in the input has a src that is not empty, and its srcset is the
\* one of the input.
C23_SrcStaysNonEmpty ==
  pc = "absolutize"
  => \A n \in Output :
       ( /\ dom.tag[n] = "img" /\ HasAttr(opts.html, n, "srcset")
         /\ HasAttr(opts.html, n, "src") /\ opts.html.attrs[n]["src"] # <<>> )
       => /\ HasAttr(dom, n, "src") /\ dom.attrs[n]["src"] # <<>>
          /\ HasAttr(dom, n, "srcset")
          /\ dom.attrs[n]["srcset"] = opts.html.attrs[n]["srcset"]

(***************************************************************************)
(* Properties of extract_metadata.                                         *)
(***************************************************************************)
\* the <title> element or a meta element keyed title sets the title
TitleSet ==
  \/ \E n \in Subtree(dom, HEAD) : dom.tag[n] = "title"
  \/ Contents(DOC, <<"t","i","t","l","e">>) # <<>>

\* the entries the fallback looks at, in its priority order
FallbackKeys == << <<"o","g","T","i","t","l","e">>, <<"o","g",":","t","i","t","l","e">>, <<"t","w","i","t","t","e","r",":","t","i","t","l","e">> >>

\* the entry under the i-th fallback key is a non-empty String
NonEmptyString(i) ==
  /\ FallbackKeys[i] \in DOMAIN out
  /\ out[FallbackKeys[i]].t = "String"
  /\ out[FallbackKeys[i]].v # <<>>

\* C11 as stated: when neither the <title> element nor a meta element keyed
\* title set the title, the returned title is the first non-empty String
\* among ogTitle, og:title, twitter:title in that order, an absent, empty or
\* non-String entry falling through to the next; it is absent only when none
\* of the three is a non-empty String.
C11_TitleFromFirstNonEmpty ==
  (pc = "meta_done" /\ opts.some /\ ~TitleSet)
  => IF \E i \in DOMAIN FallbackKeys : NonEmptyString(i)
     THEN LET i == CHOOSE j \in DOMAIN FallbackKeys :
                     NonEmptyString(j) /\ \A h \in 1..(j - 1) : ~NonEmptyString(h)
          IN  /\ <<"t","i","t","l","e">> \in DOMAIN out
              /\ out[<<"t","i","t","l","e">>] = String(out[FallbackKeys[i]].v)
     ELSE <<"t","i","t","l","e">> \notin DOMAIN out

\* C12: no step of an extract_metadata call turns the Array stored under a
\* key into anything else or drops the key, and after every step the value
\* under description, when there is one, is a String.
C12_ArrayStaysArray ==
  [][ /\ \A k \in DOMAIN out :
           out[k].t = "Array" => (k \in DOMAIN out' /\ out'[k].t = "Array")
      /\ <<"d","e","s","c","r","i","p","t","i","o","n">> \in DOMAIN out' => out'[<<"d","e","s","c","r","i","p","t","i","o","n">>].t = "String"
    ]_vars

\* a map in which an Array grew by a further meta element, next to a
\* description
C12_Witness ==
  /\ pc \in {"meta_generic", "meta_done"}
  /\ <<"l","a","n","g","u","a","g","e">> \in DOMAIN out
  /\ out[<<"l","a","n","g","u","a","g","e">>] = Array(<<<<"f","r">>, <<"a">>, <<"b">>>>)
  /\ <<"d","e","s","c","r","i","p","t","i","o","n">> \in DOMAIN out
  /\ out[<<"d","e","s","c","r","i","p","t","i","o","n">>].t = "String"

\* the href that lines 225-238 choose for the favicon
FaviconHref ==
  LET icon == first_attr(dom, HEAD, AttrEq("link", "rel", <<"i","c","o","n">>), "href")
  IN  IF icon.some THEN icon
      ELSE first_attr(dom, HEAD, AttrSub("link", "rel", <<"i","c","o","n">>), "href")

\* C15 as stated: when <html> has a lang attribute, the returned map holds
\* under language the String of that attribute, and under favicon the String
\* of the chosen link href, whatever meta elements the document contains.
C15_LanguageIsHtmlLang ==
  (pc = "meta_done" /\ opts.some /\ "lang" \in DOMAIN dom.attrs[HTML])
    => /\ <<"l","a","n","g","u","a","g","e">> \in DOMAIN out
       /\ out[<<"l","a","n","g","u","a","g","e">>] = String(dom.attrs[HTML]["lang"])
       /\ FaviconHref.some =>
            /\ <<"f","a","v","i","c","o","n">> \in DOMAIN out
            /\ out[<<"f","a","v","i","c","o","n">>] = String(FaviconHref.v)

(***************************************************************************)
(* Properties of extract_attributes.                                       *)
(***************************************************************************)
\* the value element n gives for the requested name: its attribute of that
\* name, else its attribute of the data- name when the requested name does
\* not start with data-
Given(n, attribute) ==
  LET Named(a) == {k \in DOMAIN dom.attrs[n] \cap DOMAIN ATTRIBUTE_NAMES :
                     ATTRIBUTE_NAMES[k] = a}
      Value(a) == dom.attrs[n][CHOOSE k \in Named(a) : TRUE]
  IN  IF Named(attribute) # {} THEN <<Value(attribute)>>
      ELSE IF /\ ~starts_with(attribute, <<"d","a","t","a","-">>)
              /\ Named(<<"d","a","t","a","-">> \o attribute) # {}
      THEN <<Value(<<"d","a","t","a","-">> \o attribute)>>
      ELSE <<>>

\* C13: a finished extract_attributes call returns one result per request,
\* in request order, with the request's selector and attribute; the values
\* of a request whose selector does not parse are empty; the values of
\* another are, over the elements its selector matches in document order,
\* the value each element gives, elements that give none being left out.
C13_OneResultPerRequest ==
  pc = "attrs_done" =>
    /\ Len(res) = Len(opts.selectors)
    /\ \A i \in DOMAIN res :
         /\ res[i].selector = opts.selectors[i].selector
         /\ res[i].attribute = opts.selectors[i].attribute
         /\ res[i].values =
              IF opts.selectors[i].selector.t = "bad" THEN <<>>
              ELSE LET ms == SelectSeq(inclusive_descendants(dom, DOC),
                                LAMBDA n : Matches(dom, n, opts.selectors[i].selector))
                   IN  Concat([j \in DOMAIN ms |-> Given(ms[j], opts.selectors[i].attribute)])

\* a finished call with a request whose selector does not parse followed by
\* one whose values hold a direct value and, after it, a data- value
C13_Witness ==
  /\ pc = "attrs_done"
  /\ Len(res) = 2
  /\ res[1].selector = BadSel /\ res[1].values = <<>>
  /\ res[2].values = << <<"a">>, <<"b">> >>
  /\ \E n \in Elems : DOMAIN dom.attrs[n] = {"src", "data-src"}

(***************************************************************************)
(* Properties of extract_images.                                           *)
(***************************************************************************)
\* the page URL and the base href of a call that parsed its page URL
PageUrl == url_parse(opts.base_url).v

BaseHref ==
  LET bases == select(dom, DOC, TagSel("base"))
  IN  IF bases # <<>> /\ HasAttr(dom, Head(bases), "href")
      THEN dom.attrs[Head(bases)]["href"] ELSE PageUrl

\* what a found URL stands for: itself when it starts with data:, blob:,
\* http:// or https://, the join against the page URL when it is
\* protocol-relative, the join against the base href otherwise
StandsFor(u) ==
  IF \E p \in {<<"d","a","t","a",":">>, <<"b","l","o","b",":">>, <<"h","t","t","p",":","/","/">>, <<"h","t","t","p","s",":","/","/">>} : starts_with(u, p)
  THEN [ok |-> TRUE, v |-> u]
  ELSE IF starts_with(u, <<"/","/">>) THEN url_join(PageUrl, u)
  ELSE url_join(BaseHref, u)

\* the final filter lets url pass
Returnable(url) ==
  /\ url # <<>>
  /\ ~starts_with(to_lowercase(url), <<"j","a","v","a","s","c","r","i","p","t",":">>)
  /\ \/ starts_with(url, <<"d","a","t","a",":">>) \/ starts_with(url, <<"b","l","o","b",":">>)
     \/ url_parse(url).ok

\* C14: every URL a finished extract_images call returns is non-empty, no
\* javascript: URL in any letter case, and a data: or blob: URL or an
\* absolute URL; the list has no string twice; and the URLs returned are
\* what the found URLs stand for (as written, joined against the page URL,
\* or joined against the base href), a found URL whose join fails or that
\* the final filter removes being left out.
C14_ImagesResolvedAndFiltered ==
  pc = "images_done" =>
    /\ \A i \in DOMAIN res : Returnable(res[i])
    /\ \A i, j \in DOMAIN res : i # j => res[i] # res[j]
    /\ Range(res) =
         {StandsFor(u).v :
            u \in {x \in found_urls(dom) :
                     StandsFor(x).ok /\ Returnable(StandsFor(x).v)}}

\* a finished call on a document with a base element that returned a data:
\* URL as written, a protocol-relative URL with the scheme of the page and a
\* relative one below the base href
C14_Witness ==
  /\ pc = "images_done"
  /\ Len(res) = 3
  /\ {<<"d","a","t","a",":","x">>, <<"h","t","t","p","s",":","/","/","c",".","i","o","/","i">>, <<"h","t","t","p",":","/","/","b",".","i","o","/","d","/","i",".","p","n","g">>} = Range(res)

====
